---------------------------- MODULE Spec2Model ----------------------------
(***************************************************************************)
(* Model of the Express Entry CRS score tracker page (the script that      *)
(* generate.ts embeds into the page): the projection math, the pool-aware  *)
(* projection helpers and the per-category eligibility results.            *)
(*                                                                         *)
(* Conventions of the model                                                *)
(*  - Dates are whole days since 2024-01-01 (UTC).  The code works on      *)
(*    millisecond timestamps; every date it handles is a calendar date,    *)
(*    and the regressions are evaluated in exact arithmetic, so the unit   *)
(*    does not change a comparison.                                        *)
(*  - JavaScript numbers are modelled as exact rationals <<n, d>>, d > 0.   *)
(*    Floating-point rounding error is not modelled.                       *)
(*  - null is the record Null.                                             *)
(***************************************************************************)
EXTENDS Integers, Sequences, FiniteSets

VARIABLES
    originalDatasets,       \* sequence of [label, data]: the embedded chart data
    distributionSnapshots,  \* sequence of snapshots: the embedded pool data
    today,                  \* the day new Date() reports
    projectionMode,         \* 'off' | 'linear' | 'moving-avg' | 'poly'
    timeRange,              \* 'all' | '3y'
    userScore,              \* the score the eligibility results are built for
    hiddenCategories,       \* set of labels toggled off
    scoreResults,           \* the cards of #scoreResults, in document order
    currentTheme,           \* 'auto' | 'light' | 'dark'
    distView,               \* 'current' | 'history': the view of the pool chart
    url,                    \* the query string of window.location
    buttons,                \* which toggle buttons have the class 'active'
    call,                   \* a direct call of one function: its name and arguments
    result                  \* what that call returned

vars == <<originalDatasets, distributionSnapshots, today, projectionMode,
          timeRange, userScore, hiddenCategories, scoreResults, currentTheme,
          distView, url, buttons, call, result>>

(***************************************************************************)
(* Exact rational arithmetic standing for JavaScript number arithmetic.    *)
(***************************************************************************)
Abs(n) == IF n < 0 THEN -n ELSE n

RECURSIVE Gcd(_, _)
Gcd(a, b) == IF b = 0 THEN a ELSE Gcd(b, a % b)

RNorm(n, d) ==
    LET g == Gcd(Abs(n), d)
    IN  <<n \div g, d \div g>>

RInt(n) == <<n, 1>>

RNeg(a) == <<-a[1], a[2]>>

RAdd(a, b) ==
    LET g == Gcd(a[2], b[2])
    IN  RNorm(a[1] * (b[2] \div g) + b[1] * (a[2] \div g), (a[2] \div g) * b[2])

RSub(a, b) == RAdd(a, RNeg(b))

RMul(a, b) ==
    LET g1 == Gcd(Abs(a[1]), b[2])
        g2 == Gcd(Abs(b[1]), a[2])
    IN  <<(a[1] \div g1) * (b[1] \div g2), (a[2] \div g2) * (b[2] \div g1)>>

\* a / b for b # 0
RDiv(a, b) ==
    RMul(a, IF b[1] < 0 THEN <<-b[2], -b[1]>> ELSE <<b[2], b[1]>>)

RAbs(a) == <<Abs(a[1]), a[2]>>

RLeq(a, b) == a[1] * b[2] <= b[1] * a[2]

RIsZero(a) == a[1] = 0

\* Math.round: the nearest integer, a tie going up
MathRound(a) == (2 * a[1] + a[2]) \div (2 * a[2])

\* Math.floor
MathFloor(a) == a[1] \div a[2]

\* n * 10^k < d, for n >= 0 and d > 0, computed without forming 10^k
RECURSIVE TimesPow10Less(_, _, _)
TimesPow10Less(n, d, k) ==
    IF k = 0 THEN n < d
    ELSE TimesPow10Less(n, ((d - 1) \div 10) + 1, k - 1)

\* a < 10^(-k), for a >= 0: the code's "Math.abs(d) < 1e-10" and "< 1e-20"
BelowEps(a, k) == TimesPow10Less(a[1], a[2], k)

Null == [kind |-> "null"]

(***************************************************************************)
(* Projection math.  A point is [x |-> date, y |-> rational].              *)
(***************************************************************************)
MOVING_AVG_WINDOW == 6

PROJECTION_MONTHS == 6

\* for (const p of pts) { sx += p.x; sy += p.y; sxy += p.x*p.y; sxx += p.x*p.x; }
RECURSIVE LinSums(_, _)
LinSums(pts, i) ==
    IF i = 0
    THEN [sx |-> 0, sy |-> RInt(0), sxy |-> RInt(0), sxx |-> 0]
    ELSE LET s == LinSums(pts, i - 1)
             p == pts[i]
         IN  [sx  |-> s.sx + p.x,
              sy  |-> RAdd(s.sy, p.y),
              sxy |-> RAdd(s.sxy, RMul(RInt(p.x), p.y)),
              sxx |-> s.sxx + p.x * p.x]

\* the intercept without the division by n
LinIntercept_Undivided(s, slope, n) == RSub(s.sy, RMul(slope, RInt(s.sx)))

\* const intercept = (sy - slope * sx) / n
LinIntercept(s, slope, n) == RDiv(RSub(s.sy, RMul(slope, RInt(s.sx))), RInt(n))

\* return { eval: (x) => slope * x + intercept, slope, intercept }
LinearModel(s, n, slope) ==
    [kind |-> "linear", slope |-> slope, intercept |-> LinIntercept(s, slope, n)]

\* if (Math.abs(d) < 1e-10) return null; const slope = (n * sxy - sx * sy) / d
LinearSolve(s, n, d) ==
    IF BelowEps(RInt(Abs(d)), 10) THEN Null
    ELSE LinearModel(s, n, RDiv(RSub(RMul(RInt(n), s.sxy), RMul(RInt(s.sx), s.sy)),
                                RInt(d)))

\* const d = n * sxx - sx * sx
LinearFromSums(s, n) == LinearSolve(s, n, n * s.sxx - s.sx * s.sx)

\* Linear regression: y = slope * x + intercept
linearRegression(pts) ==
    IF Len(pts) < 2 THEN Null ELSE LinearFromSums(LinSums(pts, Len(pts)), Len(pts))

\* the sums s1..s4, t0..t2 over the normalised points
RECURSIVE PolySums(_, _)
PolySums(norm, i) ==
    IF i = 0
    THEN [s1 |-> RInt(0), s2 |-> RInt(0), s3 |-> RInt(0), s4 |-> RInt(0),
          t0 |-> RInt(0), t1 |-> RInt(0), t2 |-> RInt(0)]
    ELSE LET s  == PolySums(norm, i - 1)
             x  == norm[i].x
             y  == norm[i].y
             x2 == RMul(x, x)
         IN  [s1 |-> RAdd(s.s1, x),
              s2 |-> RAdd(s.s2, x2),
              s3 |-> RAdd(s.s3, RMul(x2, x)),
              s4 |-> RAdd(s.s4, RMul(x2, x2)),
              t0 |-> RAdd(s.t0, y),
              t1 |-> RAdd(s.t1, RMul(x, y)),
              t2 |-> RAdd(s.t2, RMul(x2, y))]

det3(m) ==
    RAdd(RSub(RMul(m[1][1], RSub(RMul(m[2][2], m[3][3]), RMul(m[2][3], m[3][2]))),
              RMul(m[1][2], RSub(RMul(m[2][1], m[3][3]), RMul(m[2][3], m[3][1])))),
         RMul(m[1][3], RSub(RMul(m[2][1], m[3][2]), RMul(m[2][2], m[3][1]))))

replCol(m, col, v) ==
    [i \in 1..3 |-> [j \in 1..3 |-> IF j = col THEN v[i] ELSE m[i][j]]]

\* pts.map(p => ({ x: (p.x - xMin) / xRange, y: p.y }))
Normalised(pts, xMin, xRange) ==
    [i \in 1..Len(pts) |->
        [x |-> RNorm((pts[i].x - xMin) * (IF xRange < 0 THEN -1 ELSE 1), Abs(xRange)),
         y |-> pts[i].y]]

\* const M = [[s0, s1, s2], [s1, s2, s3], [s2, s3, s4]]
NormalMatrix(n, s) ==
    << <<RInt(n), s.s1, s.s2>>,
       <<s.s1,    s.s2, s.s3>>,
       <<s.s2,    s.s3, s.s4>> >>

\* PolyModel with "return null" where the code returns linearRegression(pts)
PolyModel_NoFallBack(pts, xMin, xRange, M, T, D) ==
    IF BelowEps(RAbs(D), 20) THEN Null
    ELSE [kind |-> "poly",
          a |-> RDiv(det3(replCol(M, 3, T)), D),
          b |-> RDiv(det3(replCol(M, 2, T)), D),
          c |-> RDiv(det3(replCol(M, 1, T)), D),
          xMin |-> xMin, xRange |-> xRange]

\* Cramer's rule, or the linear fit when |D| < 1e-20
PolyModel(pts, xMin, xRange, M, T, D) ==
    IF BelowEps(RAbs(D), 20) THEN linearRegression(pts)
    ELSE [kind |-> "poly",
          a |-> RDiv(det3(replCol(M, 3, T)), D),
          b |-> RDiv(det3(replCol(M, 2, T)), D),
          c |-> RDiv(det3(replCol(M, 1, T)), D),
          xMin |-> xMin, xRange |-> xRange]

\* const D = det3(M)
PolySolve(pts, xMin, xRange, M, T) == PolyModel(pts, xMin, xRange, M, T, det3(M))

\* const T = [t0, t1, t2]
PolyFromSums(pts, xMin, xRange, s) ==
    PolySolve(pts, xMin, xRange, NormalMatrix(Len(pts), s), <<s.t0, s.t1, s.t2>>)

\* the fit on the points normalised by xMin and xRange
PolyNormalised(pts, xMin, xRange) ==
    PolyFromSums(pts, xMin, xRange, PolySums(Normalised(pts, xMin, xRange), Len(pts)))

\* const xRange = pts[n - 1].x - xMin || 1
PolyRange(pts, xMin) ==
    PolyNormalised(pts, xMin,
                   IF pts[Len(pts)].x - xMin = 0 THEN 1 ELSE pts[Len(pts)].x - xMin)

\* Polynomial (quadratic) regression: y = a*x^2 + b*x + c on normalised x
polyRegression(pts) ==
    IF Len(pts) < 4 THEN linearRegression(pts) ELSE PolyRange(pts, pts[1].x)

\* reg.eval(x)
Eval(reg, x) ==
    IF reg.kind = "linear"
    THEN \* slope * x + intercept over the common denominator of the two
         LET g == Gcd(reg.slope[2], reg.intercept[2])
         IN  <<reg.slope[1] * x * (reg.intercept[2] \div g)
                  + reg.intercept[1] * (reg.slope[2] \div g),
               (reg.slope[2] \div g) * reg.intercept[2]>>
    ELSE LET xn == RNorm((x - reg.xMin) * (IF reg.xRange < 0 THEN -1 ELSE 1),
                         Abs(reg.xRange))
         IN  RAdd(RAdd(RMul(RMul(reg.a, xn), xn), RMul(reg.b, xn)), reg.c)

\* the trailing mean of window MOVING_AVG_WINDOW ending at index i (unrounded)
RECURSIVE WindowSum(_, _, _)
WindowSum(pts, j, i) ==
    IF j > i THEN RInt(0) ELSE RAdd(pts[j].y, WindowSum(pts, j + 1, i))

\* smoothed[] of getProjectedCrossing / getPoolAwareProjection: one point per
\* index i >= MOVING_AVG_WINDOW - 1, y = sum / MOVING_AVG_WINDOW
SmoothedSeries(pts) ==
    [k \in 1..(Len(pts) - MOVING_AVG_WINDOW + 1) |->
        [x |-> pts[k + MOVING_AVG_WINDOW - 1].x,
         y |-> RDiv(WindowSum(pts, k, k + MOVING_AVG_WINDOW - 1),
                    RInt(MOVING_AVG_WINDOW))]]

\* smoothed.slice(-3)
LastThree(s) ==
    IF Len(s) <= 3 THEN s ELSE SubSeq(s, Len(s) - 2, Len(s))

(***************************************************************************)
(* Dates.  Day 0 is 2024-01-01.                                            *)
(***************************************************************************)
\* the first day of each month, January 2024 to December 2028
MonthStarts ==
    << 0, 31, 60, 91, 121, 152, 182, 213, 244, 274, 305, 335,
       366, 397, 425, 456, 486, 517, 547, 578, 609, 639, 670, 700,
       731, 762, 790, 821, 851, 882, 912, 943, 974, 1004, 1035, 1065,
       1096, 1127, 1155, 1186, 1216, 1247, 1277, 1308, 1339, 1369, 1400, 1430,
       1461, 1492, 1521, 1552, 1582, 1613, 1643, 1674, 1705, 1735, 1766, 1796 >>

\* d.toLocaleDateString('en-CA', { year: 'numeric', month: 'short' }):
\* the text names the month and the year of day t and nothing else
FormatMonthYear(t) ==
    LET m == Cardinality({i \in 1..Len(MonthStarts) : MonthStarts[i] <= t})
    IN  [year |-> 2024 + ((m - 1) \div 12), month |-> ((m - 1) % 12) + 1]

\* new Date(y - 3, m, d) for today = (y, m, d): the same calendar day three
\* years earlier.  For a day of January or February 2027 that is 1096 days
\* back (2024 is a leap year).
ThreeYearsBefore(day) == day - 1096

(***************************************************************************)
(* Pool-aware projection helpers.  A distribution snapshot is              *)
(* [date |-> day, ranges |-> [key -> count]].                              *)
(***************************************************************************)
\* Score range boundaries (lower bound of each range, high to low)
ScoreRanges ==
    << [key |-> "601-1200", lo |-> 601], [key |-> "501-600", lo |-> 501],
       [key |-> "491-500", lo |-> 491],  [key |-> "481-490", lo |-> 481],
       [key |-> "471-480", lo |-> 471],  [key |-> "461-470", lo |-> 461],
       [key |-> "451-460", lo |-> 451],  [key |-> "441-450", lo |-> 441],
       [key |-> "431-440", lo |-> 431],  [key |-> "421-430", lo |-> 421],
       [key |-> "411-420", lo |-> 411],  [key |-> "401-410", lo |-> 401],
       [key |-> "351-400", lo |-> 351],  [key |-> "301-350", lo |-> 301],
       [key |-> "0-300", lo |-> 0] >>

RangeKeys == {ScoreRanges[i].key : i \in 1..Len(ScoreRanges)}

\* parseInt(r.key.split('-')[1]): the number after the dash of the key
KeyUpperBound(key) ==
    CASE key = "601-1200" -> 1200 [] key = "501-600" -> 600
      [] key = "491-500" -> 500   [] key = "481-490" -> 490
      [] key = "471-480" -> 480   [] key = "461-470" -> 470
      [] key = "451-460" -> 460   [] key = "441-450" -> 450
      [] key = "431-440" -> 440   [] key = "421-430" -> 430
      [] key = "411-420" -> 420   [] key = "401-410" -> 410
      [] key = "351-400" -> 400   [] key = "301-350" -> 350
      [] key = "0-300" -> 300

\* the scores of the range above the cutoff, the cutoff itself left out
AboveInRange_Exclusive(hi, cutoffScore) == hi - cutoffScore

\* const above = hi - cutoffScore + 1
AboveInRange(hi, cutoffScore) == hi - cutoffScore + 1

\* the body of the for loop of countAboveScore from range i on, total so far
RECURSIVE CountWalk(_, _, _, _)
CountWalk(dist, cutoffScore, i, total) ==
    IF i > Len(ScoreRanges) THEN total
    ELSE LET r     == ScoreRanges[i]
             count == dist.ranges[r.key]
         IN  IF cutoffScore <= r.lo
             THEN CountWalk(dist, cutoffScore, i + 1, total + count)
             ELSE LET hi   == IF r.key = "601-1200" THEN 1200 ELSE KeyUpperBound(r.key)
                      span == hi - r.lo + 1
                  IN  IF cutoffScore <= hi
                      THEN total + MathRound(RMul(RInt(count),
                                                  RNorm(AboveInRange(hi, cutoffScore), span)))
                      ELSE total

\* the candidates below the cutoff instead of those at or above it
countAboveScore_Below(dist, cutoffScore) ==
    CountWalk(dist, 0, 1, 0) - CountWalk(dist, cutoffScore, 1, 0)

\* Given a CRS cutoff score, count candidates at or above it
countAboveScore(dist, cutoffScore) == CountWalk(dist, cutoffScore, 1, 0)

\* the scan of findClosestDist over snaps[i..]: best so far (0: none) and its
\* distance (bestDiff is Infinity while best = 0)
RECURSIVE ClosestScan(_, _, _, _, _)
ClosestScan(snaps, dateMs, i, best, bestDiff) ==
    IF i > Len(snaps) THEN [best |-> best, bestDiff |-> bestDiff]
    ELSE LET diff == Abs(snaps[i].date - dateMs)
         IN  IF best = 0 \/ diff < bestDiff
             THEN ClosestScan(snaps, dateMs, i + 1, i, diff)
             ELSE ClosestScan(snaps, dateMs, i + 1, best, bestDiff)

FRESH_DAYS == 30

\* the closest snapshot is taken however far it is
TooOld_Never(bestDiff) == FALSE

\* a snapshot exactly 30 days away counts as too old
TooOld_AtThirty(bestDiff) == bestDiff >= FRESH_DAYS

\* if (bestDiff > 30 * 24 * 60 * 60 * 1000) return null
TooOld(bestDiff) == bestDiff > FRESH_DAYS

\* Find the distribution snapshot closest to a given date (null beyond 30 days)
findClosestDist(snaps, dateMs) ==
    IF Len(snaps) = 0 THEN Null
    ELSE LET r == ClosestScan(snaps, dateMs, 1, 0, 0)
         IN  IF TooOld(r.bestDiff) THEN Null ELSE snaps[r.best]

getLatestDistribution(snaps) ==
    IF Len(snaps) = 0 THEN Null ELSE snaps[Len(snaps)]

(***************************************************************************)
(* Crossing searches.                                                      *)
(***************************************************************************)
SEARCH_STEP_DAYS == 7

\* a horizon of 4 years
HorizonQuarterDays_FourYears == 4 * 1461

\* 3 * 365.25 days, in quarter days
HorizonQuarterDays == 3 * 1461

RECENT_ROUNDS == 10

\* the last step of a search over four years
LastStep_FourYears == (4 * 1461) \div (4 * SEARCH_STEP_DAYS)

\* the number of the last step of "for (let t = lastT; t <= maxT; t += step)":
\* the largest k with k * step <= 3 * 365.25 days
LastStep == HorizonQuarterDays \div (4 * SEARCH_STEP_DAYS)

\* the first step k in lo..hi with reg.eval(lastT + k * step) <= level, or -1.
\* The loop tries the steps in increasing order and returns at the first hit.
RECURSIVE FirstStep(_, _, _, _, _)
FirstStep(reg, lastT, level, lo, hi) ==
    IF lo > hi THEN -1
    ELSE IF lo = hi
    THEN IF RLeq(Eval(reg, lastT + lo * SEARCH_STEP_DAYS), level) THEN lo ELSE -1
    ELSE LET mid   == (lo + hi) \div 2
             first == FirstStep(reg, lastT, level, lo, mid)
         IN  IF first >= 0 THEN first
             ELSE FirstStep(reg, lastT, level, mid + 1, hi)

\* the text a crossing search returns: month and year, ' *' appended or not
DateText(t, star) == [kind |-> "text", monthYear |-> FormatMonthYear(t), star |-> star]

\* the text for the date of step k, null when no step crossed (k = -1)
StepText(lastT, k, star) ==
    IF k < 0 THEN Null ELSE DateText(lastT + k * SEARCH_STEP_DAYS, star)

\* if (!reg) return null;
\* for (let t = lastT; t <= maxT; t += step) if (reg.eval(t) <= level) return text
\* return null
CrossingSearch(reg, lastT, level, star) ==
    IF reg = Null THEN Null
    ELSE StepText(lastT, FirstStep(reg, lastT, level, 0, LastStep), star)

\* sorted.map(d => ({ x: new Date(d.x).getTime(), y: d.y }))
ScorePoints(sorted) == [i \in 1..Len(sorted) |-> [x |-> sorted[i].x, y |-> RInt(sorted[i].y)]]

\* only a negative invitation count is skipped
InvitationsMissing_OnlyNegative(d) == d.invitations < 0

\* if (!d.invitations || d.invitations <= 0) continue
InvitationsMissing(d) == d.invitations <= 0

\* the for loop that fills ratioSeries, over sorted[1..i]
RECURSIVE RatioSeries(_, _, _)
RatioSeries(sorted, snaps, i) ==
    IF i = 0 THEN << >>
    ELSE LET d    == sorted[i]
             rest == RatioSeries(sorted, snaps, i - 1)
             dist == findClosestDist(snaps, d.x)
         IN  IF InvitationsMissing(d) THEN rest
             ELSE IF dist = Null THEN rest
             ELSE Append(rest, [x |-> d.x,
                                ratio |-> RDiv(RInt(countAboveScore(dist, d.y)),
                                               RInt(d.invitations)),
                                cutoff |-> d.y,
                                invitations |-> d.invitations])

\* arr.sort((a, b) => a - b) on numbers
RECURSIVE SortNumbers(_)
SortNumbers(arr) ==
    IF Len(arr) <= 1 THEN arr
    ELSE LET rest == SortNumbers(SubSeq(arr, 1, Len(arr) - 1))
             v    == arr[Len(arr)]
             k    == Cardinality({i \in 1..Len(rest) : rest[i] <= v})
         IN  SubSeq(rest, 1, k) \o <<v>> \o SubSeq(rest, k + 1, Len(rest))

\* sorted.slice(-10).map(d => d.invitations).filter(n => n > 0).sort(...)
RecentInvitations(sorted) ==
    LET n     == Len(sorted)
        last  == IF n <= RECENT_ROUNDS THEN sorted
                 ELSE SubSeq(sorted, n - RECENT_ROUNDS + 1, n)
        invs  == [i \in 1..Len(last) |-> last[i].invitations]
    IN  SortNumbers(SelectSeq(invs, LAMBDA v : v > 0))

\* recentInvitations[Math.floor(recentInvitations.length / 2)]
MedianInvitations(recent) == recent[(Len(recent) \div 2) + 1]

\* for (const snap of distributionSnapshots) userRatioSeries.push(...)
UserRatioSeries(snaps, userScoreArg, medianInvitations) ==
    [i \in 1..Len(snaps) |->
        [x |-> snaps[i].date,
         y |-> RDiv(RInt(countAboveScore(snaps[i], userScoreArg)),
                    RInt(medianInvitations))]]

\* userAbove / medianInvitations on the latest snapshot
UserRatio(snaps, sorted, userScoreArg) ==
    RDiv(RInt(countAboveScore(getLatestDistribution(snaps), userScoreArg)),
         RInt(MedianInvitations(RecentInvitations(sorted))))

\* the regression getPoolAwareProjection fits to the user's ratio trend
PoolRegression(userRatioSeries, mode) ==
    IF mode = "moving-avg" /\ Len(userRatioSeries) >= MOVING_AVG_WINDOW
    THEN linearRegression(LastThree(SmoothedSeries(userRatioSeries)))
    ELSE IF mode = "poly" THEN polyRegression(userRatioSeries)
    ELSE linearRegression(userRatioSeries)

\* the returns of getPoolAwareProjection before any fit: fewer than 3 ratios,
\* no latest snapshot, no recent invitations, a user ratio <= 1.0, fewer than
\* 2 snapshots
PoolModelUnavailable(page, sorted, userScoreArg) ==
    \/ Len(RatioSeries(sorted, page.distributionSnapshots, Len(sorted))) < 3
    \/ getLatestDistribution(page.distributionSnapshots) = Null
    \/ Len(RecentInvitations(sorted)) = 0
    \/ RLeq(UserRatio(page.distributionSnapshots, sorted, userScoreArg), RInt(1))
    \/ Len(page.distributionSnapshots) < 2

\* the pool-aware search with its result left unmarked
PoolSearch_Unmarked(userRatioSeries, mode) ==
    CrossingSearch(PoolRegression(userRatioSeries, mode),
                   userRatioSeries[Len(userRatioSeries)].x, RInt(1), FALSE)

\* the fit to the user's ratios and the search for a ratio <= 1.0
PoolSearch(userRatioSeries, mode) ==
    CrossingSearch(PoolRegression(userRatioSeries, mode),
                   userRatioSeries[Len(userRatioSeries)].x, RInt(1), TRUE)

\* Pool-aware projection: uses competition ratio (candidates above cutoff /
\* invitations) instead of raw CRS score trend
getPoolAwareProjection(page, sorted, userScoreArg) ==
    IF PoolModelUnavailable(page, sorted, userScoreArg) THEN Null
    ELSE PoolSearch(UserRatioSeries(page.distributionSnapshots, userScoreArg,
                                    MedianInvitations(RecentInvitations(sorted))),
                    page.projectionMode)

\* the regression of the trend-based projection (null when none can be fitted)
TrendRegression(sorted, mode) ==
    IF mode = "moving-avg"
    THEN IF Len(sorted) < MOVING_AVG_WINDOW THEN Null
         ELSE linearRegression(LastThree(SmoothedSeries(ScorePoints(sorted))))
    ELSE IF mode = "poly" THEN polyRegression(ScorePoints(sorted))
    ELSE linearRegression(ScorePoints(sorted))

\* the trend search started at today's date instead of the last round's
TrendCrossing_FromToday(page, sorted, score) ==
    CrossingSearch(TrendRegression(sorted, page.projectionMode),
                   page.today, RInt(score), FALSE)

\* the trend-based projection of getProjectedCrossing (its fall-back part)
TrendCrossing(page, sorted, score) ==
    CrossingSearch(TrendRegression(sorted, page.projectionMode),
                   sorted[Len(sorted)].x, RInt(score), FALSE)

\* the trend search first, the pool-aware search only when it finds nothing
PoolThenTrend_TrendFirst(poolResult, trendResult) ==
    IF trendResult # Null THEN trendResult ELSE poolResult

\* if (poolResult) return poolResult; otherwise the trend-based projection
PoolThenTrend(poolResult, trendResult) ==
    IF poolResult # Null THEN poolResult ELSE trendResult

getProjectedCrossing(page, sorted, score) ==
    PoolThenTrend(IF Len(page.distributionSnapshots) >= 3
                  THEN getPoolAwareProjection(page, sorted, score)
                  ELSE Null,
                  TrendCrossing(page, sorted, score))

(***************************************************************************)
(* Eligibility results.  A round is [x |-> day, y |-> CRS cutoff,          *)
(* invitations |-> count].                                                 *)
(***************************************************************************)
\* [...filtered].sort((a, b) => date(a) - date(b)): a stable sort by date
RECURSIVE SortByDate(_)
SortByDate(rounds) ==
    IF Len(rounds) <= 1 THEN rounds
    ELSE LET rest == SortByDate(SubSeq(rounds, 1, Len(rounds) - 1))
             r    == rounds[Len(rounds)]
             k    == Cardinality({i \in 1..Len(rest) : rest[i].x <= r.x})
         IN  SubSeq(rest, 1, k) \o <<r>> \o SubSeq(rest, k + 1, Len(rest))

\* the rounds of ds.data the time range keeps
FilterRange(page, data) ==
    IF page.timeRange = "3y"
    THEN SelectSeq(data, LAMBDA d : d.x >= ThreeYearsBefore(page.today))
    ELSE data

\* the rounds strictly below the score
EligibleRounds_Strict(sorted, score) == SelectSeq(sorted, LAMBDA d : d.y < score)

\* sorted.filter(d => d.y <= score)
EligibleRounds(sorted, score) == SelectSeq(sorted, LAMBDA d : d.y <= score)

\* the first eligible round instead of the last
LastEligibleRound_First(eligible) ==
    IF Len(eligible) > 0 THEN eligible[1] ELSE Null

\* eligible.length > 0 ? eligible[eligible.length - 1] : null
LastEligibleRound(eligible) ==
    IF Len(eligible) > 0 THEN eligible[Len(eligible)] ELSE Null

\* a projection whatever the mode
ProjectionWanted_AnyMode(mode, currentlyEligible) == ~currentlyEligible

\* projectionMode !== 'off' && !currentlyEligible
ProjectionWanted(mode, currentlyEligible) == mode # "off" /\ ~currentlyEligible

\* a series of 2 rounds is skipped too
TooFewRounds_Three(filtered) == Len(filtered) < 3

\* a series of 1 round is resolved
TooFewRounds_One(filtered) == Len(filtered) < 1

\* if (filtered.length < 2) return
TooFewRounds(filtered) == Len(filtered) < 2

\* the card buildScoreResults appends for one category.  verdict names the
\* branch that wrote the text: "Eligible" ('Eligible now (n past rounds)'),
\* "Projected" ('Projected: <month>'), "LastEligible" ('Last eligible: <month>'),
\* "Ineligible" ('Score too low for this category'); poolAware is whether the
\* pool-aware title was set.
VerdictCard(label, currentlyEligible, eligible, lastEligible, projectedDate) ==
    IF currentlyEligible
    THEN [label |-> label, className |-> "eligible", verdict |-> "Eligible",
          count |-> Len(eligible), monthYear |-> Null, poolAware |-> FALSE]
    ELSE IF projectedDate # Null
    THEN [label |-> label, className |-> "projected", verdict |-> "Projected",
          count |-> 0, monthYear |-> projectedDate.monthYear,
          poolAware |-> projectedDate.star]
    ELSE IF lastEligible # Null
    THEN [label |-> label, className |-> "projected", verdict |-> "LastEligible",
          count |-> 0, monthYear |-> FormatMonthYear(lastEligible.x),
          poolAware |-> FALSE]
    ELSE [label |-> label, className |-> "unlikely", verdict |-> "Ineligible",
          count |-> 0, monthYear |-> Null, poolAware |-> FALSE]

\* const currentlyEligible = mostRecent.y <= score
CurrentlyEligible(sorted, score) == sorted[Len(sorted)].y <= score

\* the body of the forEach callback from the sort on
ResultCard(page, label, sorted, score) ==
    VerdictCard(label,
                CurrentlyEligible(sorted, score),
                EligibleRounds(sorted, score),
                LastEligibleRound(EligibleRounds(sorted, score)),
                IF ProjectionWanted(page.projectionMode, CurrentlyEligible(sorted, score))
                THEN getProjectedCrossing(page, sorted, score)
                ELSE Null)

\* originalDatasets.forEach(ds => ...) over the datasets 1..i
RECURSIVE ResultCards(_, _, _)
ResultCards(page, score, i) ==
    IF i = 0 THEN << >>
    ELSE LET ds       == page.originalDatasets[i]
             rest     == ResultCards(page, score, i - 1)
             filtered == FilterRange(page, ds.data)
         IN  IF ds.label \in page.hiddenCategories THEN rest
             ELSE IF TooFewRounds(filtered) THEN rest
             ELSE Append(rest, ResultCard(page, ds.label, SortByDate(filtered), score))

buildScoreResults(page, score) ==
    IF score <= 0 THEN << >> ELSE ResultCards(page, score, Len(page.originalDatasets))

(***************************************************************************)
(* The embedded data the page is generated with.                           *)
(***************************************************************************)
MaxLen == 3

MaxSnaps == 3

RoundDates == {0, 35}

CutoffScores == {470, 480}

\* generate.ts sorts the rounds of a category by date
DateSorted(s) == \A i \in 1..(Len(s) - 1) : s[i].x <= s[i + 1].x

\* the date-sorted series of 1..MaxLen rounds with the given invitation counts
SeriesWith(invitationCounts) ==
    LET rounds == [x : RoundDates, y : CutoffScores, invitations : invitationCounts]
    IN  UNION {{s \in [1..n -> rounds] : DateSorted(s)} : n \in 1..MaxLen}

SnapshotDates == {0, 35, 70, 105}

PoolCounts == {5, 40}

\* a snapshot with c candidates in 501-600 and 10 in 461-470
Snapshot(date, c) ==
    [date |-> date,
     ranges |-> [k \in RangeKeys |->
                    IF k = "501-600" THEN c ELSE IF k = "461-470" THEN 10 ELSE 0]]

\* generate.ts sorts the snapshots by date; one snapshot per date
SnapshotsSorted(s) == \A i \in 1..(Len(s) - 1) : s[i].date < s[i + 1].date

\* the date-sorted lists of 0..MaxSnaps snapshots
AllSnapshotLists ==
    LET snapshots == {Snapshot(d, c) : d \in SnapshotDates, c \in PoolCounts}
    IN  UNION {{s \in [1..n -> snapshots] : SnapshotsSorted(s)} : n \in 0..MaxSnaps}

\* no snapshots; three snapshots near the rounds; three far from every round
FewSnapshotLists ==
    { << >>,
      <<Snapshot(0, 40), Snapshot(35, 30), Snapshot(70, 20)>>,
      <<Snapshot(70, 40), Snapshot(105, 30), Snapshot(140, 20)>> }

Round(x, y, invitations) == [x |-> x, y |-> y, invitations |-> invitations]

FewSeries ==
    { <<Round(0, 480, 10), Round(14, 480, 10), Round(35, 480, 10)>>,
      <<Round(0, 480, 10), Round(14, 480, 0), Round(35, 480, 10)>>,
      <<Round(0, 480, 20), Round(14, 480, 20), Round(35, 470, 20)>>,
      <<Round(0, 480, 10), Round(35, 480, 10)>> }

\* a weekly series long enough for the moving average and the quadratic fit
LongSeries ==
    { <<Round(0, 480, 10), Round(7, 480, 10), Round(14, 480, 10), Round(21, 480, 10),
        Round(28, 480, 10), Round(35, 470, 10), Round(42, 470, 10)>> }

\* every short series and the long one with few snapshot lists, and few series
\* with every snapshot list
Inputs ==
    ((SeriesWith({10}) \cup LongSeries) \X FewSnapshotLists)
        \cup (FewSeries \X AllSnapshotLists)

ProjectionModes == {"off", "linear", "moving-avg", "poly"}

TimeRanges == {"all", "3y"}

ScoreEntries == {0, 460, 470, 1300}

Labels == {"General"}

(***************************************************************************)
(* URL state persistence.  The query string is the record of the values of *)
(* its five parameters; a parameter that is absent has the empty text, and *)
(* a number is written as the sequence of its decimal digits.              *)
(***************************************************************************)
\* String(n), for n >= 0
RECURSIVE Digits(_)
Digits(n) == IF n < 10 THEN <<n>> ELSE Append(Digits(n \div 10), n % 10)

\* parseInt(text, 10) of a text of digits
RECURSIVE ParseInt(_)
ParseInt(text) ==
    IF Len(text) = 1 THEN text[1]
    ELSE 10 * ParseInt(SubSeq(text, 1, Len(text) - 1)) + text[Len(text)]

\* new URLSearchParams() with no parameter set
NoQuery == [range |-> "", proj |-> "", hide |-> << >>, score |-> << >>, theme |-> ""]

\* originalDatasets.forEach((ds, i) => { if (hidden.has(ds.label)) indices.push(i) })
\* over the datasets 1..n, then join(','): the digits of each index, in order
RECURSIVE HiddenIndices(_, _)
HiddenIndices(page, n) ==
    IF n = 0 THEN << >>
    ELSE IF page.originalDatasets[n].label \in page.hiddenCategories
    THEN Append(HiddenIndices(page, n - 1), Digits(n - 1))
    ELSE HiddenIndices(page, n - 1)

writeURL(page, score, theme) ==
    [range |-> IF page.timeRange # "all" THEN page.timeRange ELSE "",
     proj  |-> IF page.projectionMode # "off" THEN page.projectionMode ELSE "",
     hide  |-> IF page.hiddenCategories # {}
               THEN HiddenIndices(page, Len(page.originalDatasets)) ELSE << >>,
     score |-> IF score > 0 THEN Digits(score) ELSE << >>,
     theme |-> IF theme # "auto" THEN theme ELSE ""]

readURL(p) ==
    [range |-> IF p.range # "" THEN p.range ELSE "all",
     proj  |-> IF p.proj # "" THEN p.proj ELSE "off",
     hide  |-> SelectSeq(p.hide, LAMBDA idx : idx # << >>),
     score |-> p.score,
     theme |-> IF p.theme # "" THEN p.theme ELSE "auto"]

\* initState.hide.forEach(idx => { const i = parseInt(idx, 10);
\*   if (originalDatasets[i]) hiddenCategories.add(originalDatasets[i].label) })
RestoredHidden(hide) ==
    {originalDatasets[ParseInt(hide[k]) + 1].label :
        k \in {j \in 1..Len(hide) : ParseInt(hide[j]) + 1 <= Len(originalDatasets)}}

\* let userScore = initState.score ? parseInt(initState.score, 10) : 0
RestoredScore(initState) == IF initState.score # << >> THEN ParseInt(initState.score) ELSE 0

(***************************************************************************)
(* The toggle buttons.  buttons.allBtn and buttons.categoryButtons[i] tell *)
(* whether the All button and the button of dataset i have the class       *)
(* 'active'; buttons.proj is the set of #projectionMode buttons, named by  *)
(* their data-proj, that have it.                                          *)
(***************************************************************************)
\* the All button is shown active whatever is hidden
AllBtnActive_Always(hidden) == TRUE

\* hiddenCategories.size === 0
AllBtnActive(hidden) == hidden = {}

\* allBtn.className, btn.className of each category button, and
\* btn.classList.toggle('active', btn.dataset.proj === projectionMode)
ButtonsAtLoad(hidden, mode) ==
    [allBtn |-> AllBtnActive(hidden),
     categoryButtons |-> [i \in 1..Len(originalDatasets) |->
                             originalDatasets[i].label \notin hidden],
     proj |-> {b \in {"off", "linear", "moving-avg", "poly"} : b = mode}]

(***************************************************************************)
(* The page.                                                               *)
(***************************************************************************)
Init ==
    /\ \E in \in Inputs :
         /\ originalDatasets = <<[label |-> "General", data |-> in[1]]>>
         /\ distributionSnapshots = in[2]
    /\ today = 1110
    /\ projectionMode = "off"
    /\ timeRange = "all"
    /\ userScore = 0
    /\ hiddenCategories = {}
    /\ scoreResults = << >>
    /\ currentTheme = "auto"
    /\ distView = "current"
    /\ url = NoQuery
    /\ buttons = ButtonsAtLoad(hiddenCategories, projectionMode)
    /\ call = Null
    /\ result = Null

\* the globals a handler's calls read: the embedded data, the clock and the
\* settings as the handler has just set them
Page(mode, range, hidden) ==
    [originalDatasets |-> originalDatasets,
     distributionSnapshots |-> distributionSnapshots,
     today |-> today,
     projectionMode |-> mode,
     timeRange |-> range,
     hiddenCategories |-> hidden]

\* rebuildChart(): ...; if (userScore > 0) buildScoreResults(userScore)
rebuildChart(page) ==
    scoreResults' = IF userScore > 0 THEN buildScoreResults(page, userScore)
                    ELSE scoreResults

\* the 'input' handler of #scoreInput: applyScore(userScore) builds the results
ScoreInput(val) ==
    LET score == IF val >= 0 /\ val <= 1200 THEN val ELSE 0
    IN  /\ userScore' = score
        /\ scoreResults' =
              buildScoreResults(Page(projectionMode, timeRange, hiddenCategories), score)
        /\ url' = writeURL(Page(projectionMode, timeRange, hiddenCategories), score,
                           currentTheme)
        /\ UNCHANGED <<originalDatasets, distributionSnapshots, today, projectionMode,
                       timeRange, hiddenCategories, currentTheme, distView, call,
                       result, buttons>>

\* the click handler of a #projectionMode button
ClickProjection(mode) ==
    /\ projectionMode' = mode
    /\ buttons' = [buttons EXCEPT !.proj = {mode}]
    /\ rebuildChart(Page(mode, timeRange, hiddenCategories))
    /\ url' = writeURL(Page(mode, timeRange, hiddenCategories), userScore, currentTheme)
    /\ UNCHANGED <<originalDatasets, distributionSnapshots, today, timeRange,
                   userScore, hiddenCategories, currentTheme, distView, call, result>>

\* the click handler of a #timeRange button
ClickTimeRange(range) ==
    /\ timeRange' = range
    /\ rebuildChart(Page(projectionMode, range, hiddenCategories))
    /\ url' = writeURL(Page(projectionMode, range, hiddenCategories), userScore,
                       currentTheme)
    /\ UNCHANGED <<originalDatasets, distributionSnapshots, today, projectionMode,
                   userScore, hiddenCategories, currentTheme, distView, call, result,
                   buttons>>

toggleDataset(origIdx) ==
    LET label  == originalDatasets[origIdx].label
        hidden == IF label \in hiddenCategories
                  THEN hiddenCategories \ {label}
                  ELSE hiddenCategories \cup {label}
    IN  /\ hiddenCategories' = hidden
        /\ buttons' = [buttons EXCEPT !.categoryButtons[origIdx] = label \in hiddenCategories,
                                      !.allBtn = AllBtnActive(hidden)]
        /\ rebuildChart(Page(projectionMode, timeRange, hidden))
        /\ url' = writeURL(Page(projectionMode, timeRange, hidden), userScore,
                           currentTheme)
        /\ UNCHANGED <<originalDatasets, distributionSnapshots, today, projectionMode,
                       timeRange, userScore, currentTheme, distView, call, result>>

toggleAll ==
    LET hidden == IF hiddenCategories = {}
                  THEN {originalDatasets[i].label : i \in 1..Len(originalDatasets)}
                  ELSE {}
    IN  /\ hiddenCategories' = hidden
        /\ buttons' = [buttons EXCEPT
                          !.categoryButtons = [i \in 1..Len(originalDatasets) |->
                                                  hiddenCategories # {}],
                          !.allBtn = hiddenCategories # {}]
        /\ rebuildChart(Page(projectionMode, timeRange, hidden))
        /\ url' = writeURL(Page(projectionMode, timeRange, hidden), userScore,
                           currentTheme)
        /\ UNCHANGED <<originalDatasets, distributionSnapshots, today, projectionMode,
                       timeRange, userScore, currentTheme, distView, call, result>>

Next ==
    \/ \E val \in ScoreEntries : ScoreInput(val)
    \/ \E mode \in ProjectionModes : ClickProjection(mode)
    \/ \E range \in TimeRanges : ClickTimeRange(range)
    \/ \E i \in 1..Len(originalDatasets) : toggleDataset(i)
    \/ toggleAll

Spec == Init /\ [][Next]_vars

(***************************************************************************)
(* The eligibility resolver, as the page shows it.                         *)
(***************************************************************************)
CurrentPage == Page(projectionMode, timeRange, hiddenCategories)

Visible == {i \in 1..Len(originalDatasets) :
               originalDatasets[i].label \notin hiddenCategories}

\* the series of category i the time range keeps
FilteredOf(i) == FilterRange(CurrentPage, originalDatasets[i].data)

\* the round of the latest date (of several on that date, the last listed)
LatestRound(series) ==
    LET latest == {i \in 1..Len(series) : \A j \in 1..Len(series) : series[j].x <= series[i].x}
    IN  series[CHOOSE i \in latest : \A j \in latest : j <= i]

\* the positions of the rounds a score of at least their cutoff was invited in
AtOrBelow(series, score) == {i \in 1..Len(series) : series[i].y <= score}

\* the latest date of such a round
LatestDateAtOrBelow(series, score) ==
    LET days == {series[i].x : i \in AtOrBelow(series, score)}
    IN  CHOOSE d \in days : \A e \in days : e <= d

CardsOf(i) == {k \in 1..Len(scoreResults) :
                  scoreResults[k].label = originalDatasets[i].label}

\* the card of category i (when it has exactly one)
CardOf(i) == scoreResults[CHOOSE k \in CardsOf(i) : TRUE]

Verdicts == {"Eligible", "Projected", "LastEligible", "Ineligible"}

\* category i is resolved against a positive target score
Resolved(i) == userScore > 0 /\ i \in Visible

\* category i is resolved, not eligible now, and a projection is asked for
Projecting(i) ==
    /\ Resolved(i)
    /\ Len(FilteredOf(i)) >= 2
    /\ projectionMode # "off"
    /\ LatestRound(FilteredOf(i)).y > userScore

C4_ProjectedOnlyWhenAboveAndOn ==
    \A i \in 1..Len(originalDatasets) :
        Resolved(i) =>
            \A k \in CardsOf(i) :
                LET card   == scoreResults[k]
                    latest == LatestRound(FilteredOf(i))
                IN  /\ card.verdict = "Projected" =>
                          (projectionMode # "off" /\ latest.y > userScore)
                    /\ latest.y <= userScore => card.verdict = "Eligible"
                    /\ projectionMode = "off" =>
                          card.verdict \in {"Eligible", "LastEligible", "Ineligible"}

\* one category is Projected, and switching the mode off would end that
C4_Witness ==
    \E i \in 1..Len(originalDatasets) :
        /\ Projecting(i)
        /\ \E k \in CardsOf(i) : scoreResults[k].verdict = "Projected"

\* what the two searches give for category i
PoolDate(i) ==
    getPoolAwareProjection(CurrentPage, SortByDate(FilteredOf(i)), userScore)

TrendDate(i) == TrendCrossing(CurrentPage, SortByDate(FilteredOf(i)), userScore)

\* the card of category i shows this crossing date, flagged or not
ShowsDate(i, date, flagged) ==
    /\ CardOf(i).verdict = "Projected"
    /\ CardOf(i).monthYear = date.monthYear
    /\ CardOf(i).poolAware = flagged

NoProjectedDate(i) ==
    \/ projectionMode = "off"
    \/ /\ Len(distributionSnapshots) < 3 \/ PoolDate(i) = Null
       /\ TrendDate(i) = Null

\* the fall-back verdict of category i
FallBackVerdict(i) ==
    LET series == FilteredOf(i)
    IN  /\ Cardinality(CardsOf(i)) = 1
        /\ IF AtOrBelow(series, userScore) # {}
           THEN /\ CardOf(i).verdict = "LastEligible"
                /\ CardOf(i).monthYear =
                       FormatMonthYear(LatestDateAtOrBelow(series, userScore))
           ELSE CardOf(i).verdict = "Ineligible"

PoolShortCircuit(i) ==
    LET sorted == SortByDate(FilteredOf(i))
    IN  /\ Len(distributionSnapshots) >= 3
        /\ Len(RatioSeries(sorted, distributionSnapshots, Len(sorted))) >= 3
        /\ Len(RecentInvitations(sorted)) > 0
        /\ RLeq(UserRatio(distributionSnapshots, sorted, userScore), RInt(1))

\* C7: when the user's ratio on the latest snapshot is at most 1.0 the
\* pool-aware search stops without a date, and the resolver does not fall back
\* to the trend search: the date of the trend search is not the verdict.
C7_NoTrendAfterShortCircuit ==
    \A i \in 1..Len(originalDatasets) :
        (Projecting(i) /\ PoolShortCircuit(i)) =>
            /\ PoolDate(i) = Null
            /\ ~(TrendDate(i) # Null /\ ShowsDate(i, TrendDate(i), FALSE))

\* the snapshots are all more than 30 days from every round of category i
AllStale(i) ==
    \A r \in 1..Len(FilteredOf(i)) : \A s \in 1..Len(distributionSnapshots) :
        Abs(distributionSnapshots[s].date - FilteredOf(i)[r].x) > 30

\* C8: with fewer than 3 snapshots, or with every snapshot more than 30 days
\* from the category's rounds, the resolver's result is the result of the
\* trend search on the same series, target and mode.
C8_MissingOrStaleGivesTrend ==
    \A i \in 1..Len(originalDatasets) :
        (Projecting(i) /\ (Len(distributionSnapshots) < 3 \/ AllStale(i))) =>
            IF TrendDate(i) # Null
            THEN ShowsDate(i, TrendDate(i), FALSE)
            ELSE CardOf(i).verdict \in {"LastEligible", "Ineligible"}

\* three snapshots, all stale, and the date of the trend search is shown
C8_Witness ==
    \E i \in 1..Len(originalDatasets) :
        /\ Projecting(i)
        /\ Len(distributionSnapshots) >= 3
        /\ AllStale(i)
        /\ TrendDate(i) # Null
        /\ ShowsDate(i, TrendDate(i), FALSE)

(***************************************************************************)
(* A single call of one function of the page, outside the page's handlers: *)
(* the arguments are drawn at the start and the call returns once.         *)
(***************************************************************************)
\* the page is idle while a function is called on its own
PageIdle ==
    /\ originalDatasets = << >>
    /\ distributionSnapshots = << >>
    /\ today = 1110
    /\ projectionMode = "off"
    /\ timeRange = "all"
    /\ userScore = 0
    /\ hiddenCategories = {}
    /\ scoreResults = << >>
    /\ currentTheme = "auto"
    /\ distView = "current"
    /\ url = NoQuery
    /\ buttons = ButtonsAtLoad(hiddenCategories, projectionMode)

Returned(value) == [kind |-> "returned", value |-> value]

Return(value) ==
    /\ result = Null
    /\ result' = Returned(value)
    /\ UNCHANGED <<originalDatasets, distributionSnapshots, today, projectionMode,
                   timeRange, userScore, hiddenCategories, scoreResults, currentTheme,
                   distView, url, call, buttons>>

BandCounts == {0, 5, 200}

OtherBandCounts == {0, 3}

\* a snapshot by its counts in four bands, with one count in all other bands
Distribution(top, second, middle, bottom, other) ==
    [date |-> 0,
     ranges |-> [k \in RangeKeys |->
                    CASE k = "601-1200" -> top
                      [] k = "501-600" -> second
                      [] k = "461-470" -> middle
                      [] k = "0-300" -> bottom
                      [] OTHER -> other]]

Distributions ==
    {Distribution(a, b, c, d, o) : a, b, c, d \in BandCounts, o \in OtherBandCounts}
        \cup {Distribution(100, 200, 0, 0, 0), Distribution(100, 200, 0, 9700, 0)}

Thresholds == {-5, 0, 1, 300, 301, 326, 350, 351, 400, 401, 461, 465, 466, 470, 471,
               500, 501, 550, 600, 601, 900, 1200, 1201, 1300}

InitCount ==
    /\ PageIdle
    /\ call \in [op : {"countAboveScore"}, dist : Distributions, cutoffScore : Thresholds]
    /\ result = Null

CallCountAboveScore ==
    /\ call.op = "countAboveScore"
    /\ Return(countAboveScore(call.dist, call.cutoffScore))

NextCount == CallCountAboveScore

SpecCount == InitCount /\ [][NextCount]_vars

\* the bands by position, highest first: lower bound, upper bound (one below
\* the next higher band, 1200 for the highest), count in a snapshot
BandLow(i) == ScoreRanges[i].lo

BandHigh(i) == IF i = 1 THEN 1200 ELSE ScoreRanges[i - 1].lo - 1

BandCount(dist, i) == dist.ranges[ScoreRanges[i].key]

RECURSIVE SumOfBands(_, _)
SumOfBands(dist, bands) ==
    IF bands = {} THEN 0
    ELSE LET i == CHOOSE b \in bands : TRUE
         IN  BandCount(dist, i) + SumOfBands(dist, bands \ {i})

\* round(count * (bandHigh - T + 1) / bandSpan), halves rounded up
Interpolated(dist, i, T) ==
    LET span == BandHigh(i) - BandLow(i) + 1
    IN  (2 * BandCount(dist, i) * (BandHigh(i) - T + 1) + span) \div (2 * span)

\* what the bands at or above T hold, by the rule of the walk
AtOrAbove(dist, T) ==
    LET full  == {i \in 1..Len(ScoreRanges) : BandLow(i) >= T}
        below == {i \in 1..Len(ScoreRanges) : BandLow(i) < T}
        first == CHOOSE i \in below : \A j \in below : i <= j
    IN  SumOfBands(dist, full) +
           (IF below # {} /\ T <= BandHigh(first) THEN Interpolated(dist, first, T) ELSE 0)

\* C9: countAboveScore gives the full counts of the bands whose lower bound is
\* at least T, plus round(count * (bandHigh - T + 1) / bandSpan) for the first
\* band with a lower bound below T when T <= bandHigh, and nothing for any
\* lower band; counts 100 in 601-1200 and 200 in 501-600 with T = 550 give 202.
C9_CountAtOrAbove ==
    (call.op = "countAboveScore" /\ result # Null) =>
        /\ result.value = AtOrAbove(call.dist, call.cutoffScore)
        /\ (/\ call.dist.ranges["601-1200"] = 100
            /\ call.dist.ranges["501-600"] = 200
            /\ call.dist.ranges["0-300"] = 0
            /\ call.cutoffScore = 550) => result.value = 202

\* a call with T inside a band of 200, with candidates in every band below,
\* that returned the bands above plus the interpolated 102
C9_Witness ==
    /\ call.op = "countAboveScore"
    /\ result # Null
    /\ call.cutoffScore = 550
    /\ call.dist.ranges["501-600"] = 200
    /\ call.dist.ranges["491-500"] > 0
    /\ call.dist.ranges["0-300"] > 0
    /\ result.value = call.dist.ranges["601-1200"] + 102

MaxPoints == 3

PointXs == {0, 1, 3}

PointYs == {0, 2, 5}

\* the point lists of 0..MaxPoints points
PointLists ==
    LET points == {[x |-> x, y |-> RInt(y)] : x \in PointXs, y \in PointYs}
    IN  UNION {[1..n -> points] : n \in 0..MaxPoints}

InitLinear ==
    /\ PageIdle
    /\ call \in [op : {"linearRegression"}, pts : PointLists]
    /\ result = Null

CallLinearRegression ==
    /\ call.op = "linearRegression"
    /\ Return(linearRegression(call.pts))

NextLinear == CallLinearRegression

SpecLinear == InitLinear /\ [][NextLinear]_vars

\* the residual of the model at point p
Residual(reg, p) == RSub(p.y, Eval(reg, p.x))

\* the sum over pts[1..i] of the residuals, weighted by x if byX
RECURSIVE SumResiduals(_, _, _, _)
SumResiduals(reg, pts, i, byX) ==
    IF i = 0 THEN RInt(0)
    ELSE RAdd(SumResiduals(reg, pts, i - 1, byX),
              RMul(RInt(IF byX THEN pts[i].x ELSE 1), Residual(reg, pts[i])))

\* slope and intercept solve the normal equations of least squares: the
\* residuals sum to 0, and so do the residuals weighted by x
LeastSquares(reg, pts) ==
    /\ RIsZero(SumResiduals(reg, pts, Len(pts), FALSE))
    /\ RIsZero(SumResiduals(reg, pts, Len(pts), TRUE))

AllXEqual(pts) == \A i, j \in 1..Len(pts) : pts[i].x = pts[j].x

\* C10: linearRegression returns no model for fewer than 2 points and when
\* all x are equal (the determinant n*Sxx - Sx^2 is 0); otherwise it returns
\* the line y = slope*x + intercept of ordinary least squares.
C10_LinearFit ==
    (call.op = "linearRegression" /\ result # Null) =>
        IF Len(call.pts) < 2 \/ AllXEqual(call.pts)
        THEN result.value = Null
        ELSE /\ result.value # Null
             /\ result.value.kind = "linear"
             /\ \A x \in PointXs :
                    RSub(Eval(result.value, x),
                         RAdd(RMul(result.value.slope, RInt(x)),
                              result.value.intercept)) = RInt(0)
             /\ LeastSquares(result.value, call.pts)

\* a line fitted to three points that are not on one line
C10_Witness ==
    /\ call.op = "linearRegression"
    /\ result # Null
    /\ result.value # Null
    /\ Len(call.pts) = 3
    /\ \E i \in 1..3 : ~RIsZero(Residual(result.value, call.pts[i]))

(***************************************************************************)
(* polyRegression as a pure function of its points, which every caller     *)
(* passes sorted by x.                                                     *)
(***************************************************************************)
MaxPolyPoints == 4

\* the point lists of 0..MaxPolyPoints points in ascending x
SortedPointLists ==
    LET points == {[x |-> x, y |-> RInt(y)] : x \in PointXs, y \in PointYs}
    IN  {pts \in UNION {[1..n -> points] : n \in 0..MaxPolyPoints} :
            \A i \in 1..(Len(pts) - 1) : pts[i].x <= pts[i + 1].x}

InitPoly ==
    /\ PageIdle
    /\ call \in [op : {"polyRegression"}, pts : SortedPointLists]
    /\ result = Null

CallPolyRegression ==
    /\ call.op = "polyRegression"
    /\ Return(polyRegression(call.pts))

NextPoly == CallPolyRegression

SpecPoly == InitPoly /\ [][NextPoly]_vars

\* the determinant D of the normal equations of 4 or more points
NormalDeterminant(pts) ==
    LET xMin   == pts[1].x
        xRange == IF pts[Len(pts)].x - xMin = 0 THEN 1 ELSE pts[Len(pts)].x - xMin
    IN  det3(NormalMatrix(Len(pts), PolySums(Normalised(pts, xMin, xRange), Len(pts))))

\* C11: polyRegression returns exactly what linearRegression returns on the
\* same points whenever there are fewer than 4 points or the determinant of
\* the 3x3 normal equations is below 1e-20 in absolute value; that includes
\* no model at all when all x are equal.
C11_QuadraticFallsBackToLinear ==
    (call.op = "polyRegression" /\ result # Null) =>
        /\ (Len(call.pts) < 4 \/ BelowEps(RAbs(NormalDeterminant(call.pts)), 20))
               => result.value = linearRegression(call.pts)
        /\ (Len(call.pts) >= 1 /\ AllXEqual(call.pts)) => result.value = Null

\* four points on two dates: the determinant is 0 and the linear fit is returned
C11_Witness ==
    /\ call.op = "polyRegression"
    /\ result # Null
    /\ Len(call.pts) = 4
    /\ Cardinality({call.pts[i].x : i \in 1..4}) = 2
    /\ RIsZero(NormalDeterminant(call.pts))
    /\ result.value.kind = "linear"

\* four points on three dates get a quadratic
QuadraticOnThreeDates ==
    (call.op = "polyRegression" /\ result # Null /\ Len(call.pts) = 4
        /\ Cardinality({call.pts[i].x : i \in 1..4}) = 3)
        => result.value.kind = "poly"

(***************************************************************************)
(* The projection datasets of the chart.  A time t between two days is a   *)
(* rational number of days; the x of a projected point is its date.        *)
(***************************************************************************)
totalSteps == 40

MovingAvgSteps == 12

\* reg.eval(t) at a time t that need not be a whole day
PolyAt(reg, xn) == RAdd(RAdd(RMul(RMul(reg.a, xn), xn), RMul(reg.b, xn)), reg.c)

EvalAt(reg, t) ==
    IF reg.kind = "linear" THEN RAdd(RMul(reg.slope, t), reg.intercept)
    ELSE PolyAt(reg, RDiv(RSub(t, RInt(reg.xMin)), RInt(reg.xRange)))

\* d.setMonth(d.getMonth() + months): the same day of the month, counted on
\* from the first day of the month that many months later
AddMonths(t, months) ==
    LET m == Cardinality({i \in 1..Len(MonthStarts) : MonthStarts[i] <= t})
    IN  MonthStarts[m + months] + (t - MonthStarts[m])

\* the end of the projection counted from the start of the three-year window
\* that ends today, instead of the last date
ProjectionEnd_FromToday(lastT) == AddMonths(ThreeYearsBefore(today), PROJECTION_MONTHS)

\* projEndDate.setMonth(projEndDate.getMonth() + PROJECTION_MONTHS)
ProjectionEnd(lastT) == AddMonths(lastT, PROJECTION_MONTHS)

\* startT + (endT - startT) * (i / steps)
StepTime(startT, endT, i, steps) == RAdd(RInt(startT), RNorm((endT - startT) * i, steps))

\* new Date(t).toISOString().split('T')[0]: the day t falls on
DateOf(t) == MathFloor(t)

\* Math.round(reg.eval(t)) without Math.max(0, ...)
ProjectedValue_Unclamped(reg, t) == MathRound(EvalAt(reg, t))

Max0(v) == IF v < 0 THEN 0 ELSE v

\* Math.max(0, Math.round(reg.eval(t)))
ProjectedValue(reg, t) == Max0(MathRound(EvalAt(reg, t)))

\* a point is in the future if its date is after the last one
IsFuture_ByDate(t, lastT) == DateOf(t) > lastT

\* const isFuture = t > lastT
IsFuture(t, lastT) == ~RLeq(t, RInt(lastT))

\* projPoints.push({ x, y, roundType, projMethod, ... })
ProjectedPoint(reg, t, lastT, suffix) ==
    [x |-> DateOf(t), y |-> ProjectedValue(reg, t),
     roundType |-> <<suffix, IF IsFuture(t, lastT) THEN "forecast" ELSE "trend">>,
     projMethod |-> suffix]

\* for (let i = 0; i <= totalSteps; i++) ...
ProjPoints(reg, firstT, lastT, projEndT, suffix) ==
    [k \in 1..(totalSteps + 1) |->
        ProjectedPoint(reg, StepTime(firstT, projEndT, k - 1, totalSteps), lastT, suffix)]

\* if (!reg) return null; ...; return { label, data: projPoints, ... }
RegressionDataset(reg, firstT, lastT, dsLabel, suffix) ==
    IF reg = Null THEN Null
    ELSE [label |-> <<dsLabel, suffix>>,
          data |-> ProjPoints(reg, firstT, lastT, ProjectionEnd(lastT), suffix),
          isProjection |-> TRUE]

\* regFn(pts)
ApplyRegFn(regFn, pts) ==
    IF regFn = "linearRegression" THEN linearRegression(pts) ELSE polyRegression(pts)

RegressionOver(pts, dsLabel, regFn, suffix) ==
    RegressionDataset(ApplyRegFn(regFn, pts), pts[1].x, pts[Len(pts)].x, dsLabel, suffix)

\* if (filtered.length < 3) return null
TooFewToProject(filtered) == Len(filtered) < 3

\* Generic regression projection (linear or poly)
regressionProjection(filtered, dsLabel, regFn, suffix) ==
    IF TooFewToProject(filtered) THEN Null
    ELSE RegressionOver(ScorePoints(SortByDate(filtered)), dsLabel, regFn, suffix)

\* y: Math.round(sum / MOVING_AVG_WINDOW)
SmoothedValue(sum) == MathRound(RDiv(sum, RInt(MOVING_AVG_WINDOW)))

\* the smoothed overlay on historical data: one point per index
\* i >= MOVING_AVG_WINDOW - 1
SmoothedOverlay(sorted, pts) ==
    [k \in 1..(Len(sorted) - MOVING_AVG_WINDOW + 1) |->
        [x |-> sorted[k + MOVING_AVG_WINDOW - 1].x,
         y |-> SmoothedValue(WindowSum(pts, k, k + MOVING_AVG_WINDOW - 1)),
         roundType |-> <<"moving avg">>,
         projMethod |-> "moving-avg"]]

\* for (let i = 1; i <= 12; i++) ...
MovingAvgForecast(reg, startT, endT) ==
    IF reg = Null THEN << >>
    ELSE [i \in 1..MovingAvgSteps |->
            [x |-> DateOf(StepTime(startT, endT, i, MovingAvgSteps)),
             y |-> ProjectedValue(reg, StepTime(startT, endT, i, MovingAvgSteps)),
             roundType |-> <<"moving avg forecast">>,
             projMethod |-> "moving-avg"]]

\* tail.map(p => ({ x: new Date(p.x).getTime(), y: p.y }))
TailPoints(tail) == [i \in 1..Len(tail) |-> [x |-> tail[i].x, y |-> RInt(tail[i].y)]]

\* the forecast with the line through the last two smoothed points
ForecastFrom_TailOfTwo(smoothed) ==
    IF Len(smoothed) >= 2
    THEN MovingAvgForecast(linearRegression(TailPoints(SubSeq(smoothed, Len(smoothed) - 1,
                                                              Len(smoothed)))),
                           smoothed[Len(smoothed)].x,
                           AddMonths(smoothed[Len(smoothed)].x, PROJECTION_MONTHS))
    ELSE << >>

\* Project forward: use slope of last few smoothed points
ForecastFrom(smoothed) ==
    IF Len(smoothed) >= 2
    THEN MovingAvgForecast(linearRegression(TailPoints(LastThree(smoothed))),
                           smoothed[Len(smoothed)].x,
                           AddMonths(smoothed[Len(smoothed)].x, PROJECTION_MONTHS))
    ELSE << >>

MovingAvgDataset(smoothed, dsLabel) ==
    [label |-> <<dsLabel, "ma">>, data |-> smoothed \o ForecastFrom(smoothed),
     isProjection |-> TRUE]

MovingAvgSorted(sorted, dsLabel) ==
    MovingAvgDataset(SmoothedOverlay(sorted, ScorePoints(sorted)), dsLabel)

movingAvgProjection(filtered, dsLabel) ==
    IF Len(filtered) < MOVING_AVG_WINDOW THEN Null
    ELSE MovingAvgSorted(SortByDate(filtered), dsLabel)

\* the projection buildDatasets adds for one dataset, or null
ProjectionOf(mode, filtered, dsLabel) ==
    IF mode = "off" \/ Len(filtered) < 3 THEN Null
    ELSE IF mode = "linear"
    THEN regressionProjection(filtered, dsLabel, "linearRegression", "linear")
    ELSE IF mode = "moving-avg" THEN movingAvgProjection(filtered, dsLabel)
    ELSE regressionProjection(filtered, dsLabel, "polyRegression", "polynomial")

\* result.push({ ...ds, data: filtered }); ...; if (proj) result.push(proj)
WithProjection(ds, filtered, proj) ==
    <<[label |-> ds.label, data |-> filtered, isProjection |-> FALSE]>>
        \o (IF proj = Null THEN << >> ELSE <<proj>>)

DatasetsOf(page, ds, filtered) ==
    WithProjection(ds, filtered, ProjectionOf(page.projectionMode, filtered, ds.label))

\* for (const ds of originalDatasets) ... over the datasets 1..i
RECURSIVE BuiltDatasets(_, _)
BuiltDatasets(page, i) ==
    IF i = 0 THEN << >>
    ELSE BuiltDatasets(page, i - 1)
            \o DatasetsOf(page, page.originalDatasets[i],
                          FilterRange(page, page.originalDatasets[i].data))

buildDatasets(page) == BuiltDatasets(page, Len(page.originalDatasets))

(***************************************************************************)
(* buildDatasets called twice on one page, the clock running between the   *)
(* calls.  result lists, for each call, the day of the call and the        *)
(* datasets it returned.                                                   *)
(***************************************************************************)
MaxBuild == 3

BuildDates == {7, 14, 28}

BuildScores == {100, 480}

\* the date-sorted series of 0..MaxBuild rounds
ShortBuildSeries ==
    LET rounds == {Round(x, y, 10) : x \in BuildDates, y \in BuildScores}
    IN  {s \in UNION {[1..n -> rounds] : n \in 0..MaxBuild} :
            \A i \in 1..(Len(s) - 1) : s[i].x <= s[i + 1].x}

\* the weekly series from day 0 on with these scores
Weekly(scores) == [i \in 1..Len(scores) |-> Round(7 * (i - 1), scores[i], 10)]

\* weekly series long enough for the quadratic fit and the moving average
LongBuildSeries ==
    { Weekly(<<480, 480, 470, 470, 460>>),
      Weekly(<<480, 480, 480, 480, 480, 470>>),
      Weekly(<<480, 480, 480, 480, 480, 470, 470>>),
      Weekly(<<480, 480, 480, 480, 480, 480, 480, 480>>),
      Weekly(<<480, 480, 480, 480, 480, 480, 300, 100>>),
      Weekly(<<480, 480, 480, 480, 480, 480>>) \o <<Round(35, 470, 10)>> }

BuildTodays == {1103, 1110}

InitBuild ==
    /\ \E s \in ShortBuildSeries \cup LongBuildSeries :
          originalDatasets = <<[label |-> "General", data |-> s]>>
    /\ distributionSnapshots = << >>
    /\ today \in BuildTodays
    /\ projectionMode \in ProjectionModes
    /\ timeRange \in TimeRanges
    /\ userScore = 0
    /\ hiddenCategories = {}
    /\ scoreResults = << >>
    /\ currentTheme = "auto"
    /\ distView = "current"
    /\ url = NoQuery
    /\ buttons = ButtonsAtLoad(hiddenCategories, projectionMode)
    /\ call = [op |-> "buildDatasets"]
    /\ result = << >>

\* chart.data.datasets = buildDatasets()
CallBuildDatasets ==
    /\ call.op = "buildDatasets"
    /\ Len(result) < 2
    /\ result' = Append(result,
                         [now |-> today,
                          datasets |-> buildDatasets(Page(projectionMode, timeRange,
                                                          hiddenCategories))])
    /\ UNCHANGED <<originalDatasets, distributionSnapshots, today, projectionMode,
                   timeRange, userScore, hiddenCategories, scoreResults, currentTheme,
                   distView, url, call, buttons>>

\* new Date() returns another day
ClockTick ==
    /\ call.op = "buildDatasets"
    /\ today' \in BuildTodays \ {today}
    /\ UNCHANGED <<originalDatasets, distributionSnapshots, projectionMode,
                   timeRange, userScore, hiddenCategories, scoreResults, currentTheme,
                   distView, url, call, result, buttons>>

NextBuild == CallBuildDatasets \/ ClockTick

SpecBuild == InitBuild /\ [][NextBuild]_vars

\* the series a call projected from, and the projection it returned (or null)
FilteredIn(built) == built.datasets[1].data

ProjectionIn(built) == IF Len(built.datasets) >= 2 THEN built.datasets[2] ELSE Null

\* the arithmetic mean of the scores i-w+1 .. i of the sorted series
MeanOfWindow(sorted, i, w) ==
    RDiv(WindowSum(ScorePoints(sorted), i - w + 1, i), RInt(w))

\* the smoothed overlay of a moving-average dataset: its points without the
\* forecast
OverlayOf(proj) == SelectSeq(proj.data, LAMBDA p : p.roundType = <<"moving avg">>)

\* C12: the moving average with window 6 over a sorted series of n points
\* gives no result when n < 6, and otherwise one smoothed value per index
\* i in 5 .. n-1, n - 5 values in all, each equal to the arithmetic mean of
\* the scores at the indices i-5 .. i.
C12_SmoothedIsMean ==
    (call.op = "buildDatasets" /\ projectionMode = "moving-avg") =>
        \A c \in 1..Len(result) :
            LET sorted == SortByDate(FilteredIn(result[c]))
                proj   == ProjectionIn(result[c])
            IN  IF Len(sorted) < MOVING_AVG_WINDOW THEN proj = Null
                ELSE /\ proj # Null
                     /\ Len(OverlayOf(proj)) = Len(sorted) - MOVING_AVG_WINDOW + 1
                     /\ \A k \in 1..Len(OverlayOf(proj)) :
                           RInt(OverlayOf(proj)[k].y)
                               = MeanOfWindow(sorted, k + MOVING_AVG_WINDOW - 1,
                                              MOVING_AVG_WINDOW)

\* the first day of the month of a day, and the same day of the month six
\* months later
StartOfMonth(day) ==
    CHOOSE s \in {MonthStarts[i] : i \in 1..Len(MonthStarts)} :
        s <= day /\ FormatMonthYear(s) = FormatMonthYear(day)

MonthNumber(day) == 12 * FormatMonthYear(day).year + FormatMonthYear(day).month

SixMonthsAfter(day) ==
    CHOOSE e \in (day + 180)..(day + 185) :
        /\ MonthNumber(e) = MonthNumber(day) + 6
        /\ e - StartOfMonth(e) = day - StartOfMonth(day)

\* the time of step i of the totalSteps evenly spaced steps from firstT to endT
TimeOfStep(firstT, endT, i) == RAdd(RInt(firstT), RNorm((endT - firstT) * i, totalSteps))

RoundedAndClamped(y, v) ==
    /\ y \in Nat
    /\ y > 0 => ((2 * y - 1) * v[2] <= 2 * v[1] /\ 2 * v[1] < (2 * y + 1) * v[2])
    /\ y = 0 => 2 * v[1] < v[2]

\* the model a call evaluated: the fit of the mode to the sorted series, or
\* the line through the last three points of the smoothed overlay
FittedModel(mode, sorted, proj) ==
    IF mode = "linear" THEN linearRegression(ScorePoints(sorted))
    ELSE IF mode = "poly" THEN polyRegression(ScorePoints(sorted))
    ELSE linearRegression(TailPoints(LastThree(OverlayOf(proj))))

\* the points of a projection that come from evaluating the model, each with
\* the time it was evaluated at
EvaluatedPoints(mode, sorted, proj) ==
    IF mode = "moving-avg"
    THEN LET overlay == OverlayOf(proj)
             lastT   == overlay[Len(overlay)].x
             endT    == SixMonthsAfter(lastT)
         IN  {[point |-> proj.data[Len(overlay) + i],
               t |-> RAdd(RInt(lastT), RNorm((endT - lastT) * i, MovingAvgSteps))] :
                 i \in 1..(Len(proj.data) - Len(overlay))}
    ELSE LET endT == SixMonthsAfter(sorted[Len(sorted)].x)
         IN  {[point |-> proj.data[k + 1], t |-> TimeOfStep(sorted[1].x, endT, k)] :
                 k \in 0..(Len(proj.data) - 1)}

AllRoundedAndClamped(reg, points) ==
    \A e \in points : RoundedAndClamped(e.point.y, EvalAt(reg, e.t))

\* C14: every value a projection emits from an evaluated model is a
\* non-negative integer: the model's value at the point's time, rounded to
\* the nearest integer and raised to 0 if negative.
C14_ValuesRoundedAndClamped ==
    (call.op = "buildDatasets" /\ projectionMode # "off") =>
        \A c \in 1..Len(result) :
            ProjectionIn(result[c]) # Null =>
                AllRoundedAndClamped(
                    FittedModel(projectionMode, SortByDate(FilteredIn(result[c])),
                                ProjectionIn(result[c])),
                    EvaluatedPoints(projectionMode, SortByDate(FilteredIn(result[c])),
                                    ProjectionIn(result[c])))

\* the model's value at a point's time is below -1/2 and the point shows 0,
\* while an earlier point shows a positive value
C14_Witness ==
    /\ call.op = "buildDatasets"
    /\ projectionMode \in {"linear", "moving-avg"}
    /\ Len(result) >= 1
    /\ ProjectionIn(result[1]) # Null
    /\ LET sorted == SortByDate(FilteredIn(result[1]))
           proj   == ProjectionIn(result[1])
           reg    == FittedModel(projectionMode, sorted, proj)
       IN  /\ \E e \in EvaluatedPoints(projectionMode, sorted, proj) :
                 /\ e.point.y = 0
                 /\ RLeq(EvalAt(reg, e.t), <<-1, 2>>)
           /\ \E e \in EvaluatedPoints(projectionMode, sorted, proj) : e.point.y > 0

OtherPage ==
    [CurrentPage EXCEPT !.today = today + 40,
                        !.timeRange = IF timeRange = "all" THEN "3y" ELSE "all",
                        !.hiddenCategories = {},
                        !.originalDatasets = << >>]

\* the verdict shown for a category is the verdict of its filtered series, the
\* snapshots, the target score and the projection mode alone
VerdictOfInputsAlone ==
    \A i \in 1..Len(originalDatasets) :
        (Resolved(i) /\ CardsOf(i) # {}) =>
            CardOf(i) = ResultCard(OtherPage, originalDatasets[i].label,
                                   SortByDate(FilteredOf(i)), userScore)

Themes == {"auto", "light", "dark"}

DistViews == {"current", "history"}

\* let distView = 'current'
LoadedDistView == "current"

\* two categories of two rounds each, and no snapshots
InitSettings ==
    /\ originalDatasets =
          <<[label |-> "General", data |-> <<Round(0, 480, 10), Round(35, 470, 10)>>],
            [label |-> "CEC", data |-> <<Round(14, 480, 10), Round(35, 480, 10)>>]>>
    /\ distributionSnapshots = << >>
    /\ today = 1110
    /\ projectionMode = "off"
    /\ timeRange = "all"
    /\ userScore = 0
    /\ hiddenCategories = {}
    /\ scoreResults = << >>
    /\ currentTheme = "auto"
    /\ distView = LoadedDistView
    /\ url = NoQuery
    /\ buttons = ButtonsAtLoad(hiddenCategories, projectionMode)
    /\ call = Null
    /\ result = Null

\* the click handler of a #themeToggle button
ClickTheme(theme) ==
    /\ currentTheme' = theme
    /\ url' = writeURL(Page(projectionMode, timeRange, hiddenCategories), userScore, theme)
    /\ UNCHANGED <<originalDatasets, distributionSnapshots, today, projectionMode,
                   timeRange, userScore, hiddenCategories, scoreResults, distView,
                   call, result, buttons>>

\* the click handler of a #distView button
ClickDistView(view) ==
    /\ distView' = view
    /\ UNCHANGED <<originalDatasets, distributionSnapshots, today, projectionMode,
                   timeRange, userScore, hiddenCategories, scoreResults, currentTheme,
                   url, call, result, buttons>>

\* the page script run on the parameters initState of a query string
LoadFrom(initState, hidden, score) ==
    /\ projectionMode' = initState.proj
    /\ timeRange' = initState.range
    /\ userScore' = score
    /\ currentTheme' = initState.theme
    /\ hiddenCategories' = hidden
    /\ buttons' = ButtonsAtLoad(hidden, initState.proj)
    /\ distView' = LoadedDistView
    /\ scoreResults' = IF score > 0
                       THEN buildScoreResults(Page(initState.proj, initState.range, hidden),
                                              score)
                       ELSE << >>
    /\ UNCHANGED <<originalDatasets, distributionSnapshots, today, call, result>>

\* the page loaded again on the URL it has now
Reload ==
    /\ LoadFrom(readURL(url), RestoredHidden(readURL(url).hide), RestoredScore(readURL(url)))
    /\ UNCHANGED url

\* the page opened on a URL with the query string query
OpenURL(query) ==
    /\ LoadFrom(readURL(query), RestoredHidden(readURL(query).hide),
                RestoredScore(readURL(query)))
    /\ url' = query

NextSettings ==
    \/ \E val \in ScoreEntries : ScoreInput(val)
    \/ \E mode \in ProjectionModes : ClickProjection(mode)
    \/ \E range \in TimeRanges : ClickTimeRange(range)
    \/ \E i \in 1..Len(originalDatasets) : toggleDataset(i)
    \/ toggleAll
    \/ \E theme \in Themes : ClickTheme(theme)
    \/ \E view \in DistViews : ClickDistView(view)
    \/ Reload

SpecSettings == InitSettings /\ [][NextSettings]_vars

\* a reload from the URL the page has written restores these five settings
RestoredFromURL ==
    /\ timeRange = readURL(url).range
    /\ projectionMode = readURL(url).proj
    /\ hiddenCategories = RestoredHidden(readURL(url).hide)
    /\ userScore = RestoredScore(readURL(url))
    /\ currentTheme = readURL(url).theme

\* C17: after any sequence of UI actions, a reload from the URL written by
\* writeURL restores the time range, the projection mode, the hidden
\* categories, the score, the theme and every other setting the user
\* changed, the view of the pool chart among them.
C17_ReloadRestoresEverySetting ==
    /\ RestoredFromURL
    /\ distView = LoadedDistView

(***************************************************************************)
(* getProjectedCrossing as a function of the sorted series, the score and  *)
(* the projection mode, on a page without distribution snapshots: the      *)
(* trend-based search.                                                     *)
(***************************************************************************)
MaxSearchLen == 3

SearchDates == {0, 70, 140}

SearchScores == {469, 470, 480}

SearchTargets == {460, 469}

\* the date-sorted series of 2..MaxSearchLen rounds, and weekly series long
\* enough for the quadratic fit and the moving average
SearchSeries ==
    LET rounds == {Round(x, y, 10) : x \in SearchDates, y \in SearchScores}
    IN  {s \in UNION {[1..n -> rounds] : n \in 2..MaxSearchLen} :
            \A i \in 1..(Len(s) - 1) : s[i].x <= s[i + 1].x}
        \cup { Weekly(<<480, 480, 470, 470>>),
               Weekly(<<480, 470, 480, 470, 480>>),
               Weekly(<<480, 480, 480, 480, 480, 470>>),
               Weekly(<<480, 480, 480, 480, 480, 470, 470>>),
               Weekly(<<470, 470, 470, 470, 470, 480, 480, 480>>) }

\* the calls buildScoreResults makes: a projection is on and the latest
\* cutoff is above the score
InitSearch ==
    /\ originalDatasets = << >>
    /\ distributionSnapshots = << >>
    /\ today = 1110
    /\ projectionMode \in ProjectionModes \ {"off"}
    /\ timeRange = "all"
    /\ userScore = 0
    /\ hiddenCategories = {}
    /\ scoreResults = << >>
    /\ currentTheme = "auto"
    /\ distView = "current"
    /\ url = NoQuery
    /\ buttons = ButtonsAtLoad(hiddenCategories, projectionMode)
    /\ call \in {c \in [op : {"getProjectedCrossing"}, sorted : SearchSeries,
                       score : SearchTargets] :
                    c.sorted[Len(c.sorted)].y > c.score}
    /\ result = Null

CallGetProjectedCrossing ==
    /\ call.op = "getProjectedCrossing"
    /\ Return(getProjectedCrossing(Page(projectionMode, timeRange, hiddenCategories),
                                   call.sorted, call.score))

NextSearch == CallGetProjectedCrossing

SpecSearch == InitSearch /\ [][NextSearch]_vars

\* the model the trend search of the call evaluates, and whether it is at or
\* below the target k weeks after the last round
SearchedModel == TrendRegression(call.sorted, projectionMode)

AtOrBelowTarget(reg, k) ==
    RLeq(Eval(reg, call.sorted[Len(call.sorted)].x + 7 * k), RInt(call.score))

\* the weekly steps within three years (3 * 365.25 days) of the last round
WeeklySteps == {k \in 0..200 : 4 * 7 * k <= 3 * 1461}

FirstCrossing(reg) ==
    CHOOSE k \in WeeklySteps :
        AtOrBelowTarget(reg, k) /\ \A j \in 0..(k - 1) : ~AtOrBelowTarget(reg, j)

\* C18: the trend search returns the month of the first weekly step
\* t = last + 7k days, k >= 0, t <= last + 3 years, at which the fitted model
\* is at or below the target; it returns nothing if there is no such step or
\* no model could be fitted; a returned date is never before the last
\* observed date nor more than 3 years after it.
C18_FirstWeeklyCrossing ==
    (call.op = "getProjectedCrossing" /\ result # Null) =>
        IF SearchedModel = Null THEN result.value = Null
        ELSE IF \A k \in WeeklySteps : ~AtOrBelowTarget(SearchedModel, k)
        THEN result.value = Null
        ELSE /\ result.value # Null
             /\ result.value =
                   [kind |-> "text", star |-> FALSE,
                    monthYear |-> FormatMonthYear(call.sorted[Len(call.sorted)].x
                                                    + 7 * FirstCrossing(SearchedModel))]
             /\ 7 * FirstCrossing(SearchedModel) <= 3 * 365 + 1

\* a crossing found more than a year ahead and not at the first step tried
C18_Witness ==
    /\ call.op = "getProjectedCrossing"
    /\ result # Null
    /\ result.value # Null
    /\ FirstCrossing(SearchedModel) > 52

\* a falling model that reaches the target only after the three years
NoCrossingWithinThreeYears ==
    /\ call.op = "getProjectedCrossing"
    /\ result # Null
    /\ result.value = Null
    /\ SearchedModel # Null
    /\ AtOrBelowTarget(SearchedModel, 200)

\* the pool-aware model is tried for category i and its current ratio, on the
\* latest snapshot, is above 1.0
RatioAboveOne(i) ==
    LET sorted == SortByDate(FilteredOf(i))
    IN  /\ Len(distributionSnapshots) >= 3
        /\ Len(RatioSeries(sorted, distributionSnapshots, Len(sorted))) >= 3
        /\ Len(RecentInvitations(sorted)) > 0
        /\ ~RLeq(UserRatio(distributionSnapshots, sorted, userScore), RInt(1))

\* the competition ratio of the target score at each snapshot, and the model
\* fitted to it in the mode of the page
RatiosOf(i) ==
    UserRatioSeries(distributionSnapshots, userScore,
                    MedianInvitations(RecentInvitations(SortByDate(FilteredOf(i)))))

\* the weekly steps within three years of the last snapshot at which the
\* fitted ratio is at most 1.0
RatioCrossings(reg, lastT) ==
    IF reg = Null THEN {}
    ELSE {k \in WeeklySteps : RLeq(Eval(reg, lastT + 7 * k), RInt(1))}

\* the card of category i shows the month of the first of the steps, flagged
\* pool-aware, or no pool-aware date if there is no step
ShowsFirstOf(i, crossings, lastT) ==
    IF crossings = {}
    THEN PoolDate(i) = Null /\ ~CardOf(i).poolAware
    ELSE /\ CardOf(i).verdict = "Projected"
         /\ CardOf(i).poolAware
         /\ CardOf(i).monthYear =
               FormatMonthYear(lastT + 7 * (CHOOSE k \in crossings :
                                               \A j \in crossings : k <= j))

\* C19: when the current ratio is above 1.0, the pool-aware model gives the
\* first weekly step from the last snapshot date, at most 3 years ahead, at
\* which the fitted competition ratio is at most 1.0, marked pool-aware; if
\* no step within the horizon satisfies this it gives no projection.
C19_PoolFirstWeeklyCrossing ==
    \A i \in 1..Len(originalDatasets) :
        (Projecting(i) /\ RatioAboveOne(i)) =>
            ShowsFirstOf(i,
                         RatioCrossings(PoolRegression(RatiosOf(i), projectionMode),
                                        distributionSnapshots[Len(distributionSnapshots)].date),
                         distributionSnapshots[Len(distributionSnapshots)].date)

\* a pool-aware date several weeks after the last snapshot
C19_Witness ==
    \E i \in 1..Len(originalDatasets) :
        /\ Projecting(i)
        /\ RatioAboveOne(i)
        /\ CardOf(i).poolAware
        /\ ~RLeq(Eval(PoolRegression(RatiosOf(i), projectionMode),
                      distributionSnapshots[Len(distributionSnapshots)].date + 7 * 4),
                 RInt(1))

\* a ratio above 1.0 that does not fall to 1.0 within three years
NoParityWithinThreeYears ==
    \E i \in 1..Len(originalDatasets) :
        /\ Projecting(i)
        /\ RatioAboveOne(i)
        /\ PoolDate(i) = Null

(***************************************************************************)
(* The typical invitation volume of getPoolAwareProjection as a function   *)
(* of the sorted series.                                                   *)
(***************************************************************************)
\* if (!recentInvitations.length) return null; otherwise medianInvitations
TypicalInvitations(recent) ==
    IF Len(recent) = 0 THEN Null
    ELSE [kind |-> "number", n |-> MedianInvitations(recent)]

MaxRounds == 4

InvitationCounts == {0, 10, 20}

\* weekly rounds with these invitation counts
WeeklyInvitations(counts) == [i \in 1..Len(counts) |-> Round(7 * (i - 1), 480, counts[i])]

\* every series of 0..MaxRounds rounds, and two of more than RECENT_ROUNDS
InvitationSeries ==
    {WeeklyInvitations(c) : c \in UNION {[1..n -> InvitationCounts] : n \in 0..MaxRounds}}
        \cup { WeeklyInvitations(<<40, 40, 10, 10, 10, 10, 10, 20, 20, 20, 20, 20>>),
               WeeklyInvitations(<<5, 5, 5, 40, 40, 0, 40, 40, 40, 10, 10, 10, 10>>) }

InitMedian ==
    /\ PageIdle
    /\ call \in [op : {"medianInvitations"}, sorted : InvitationSeries]
    /\ result = Null

CallMedianInvitations ==
    /\ call.op = "medianInvitations"
    /\ Return(TypicalInvitations(RecentInvitations(call.sorted)))

NextMedian == CallMedianInvitations

SpecMedian == InitMedian /\ [][NextMedian]_vars

\* the positive invitation counts of the last 10 rounds, as a bag: count ->
\* number of rounds
PositiveOfLastTen(sorted) ==
    {i \in 1..Len(sorted) : i > Len(sorted) - 10 /\ sorted[i].invitations > 0}

\* twice the median of the counts at these positions: the middle count
\* doubled, or the sum of the two middle counts
TwiceMedian(sorted, positions) ==
    LET rank(i) == Cardinality({j \in positions :
                       \/ sorted[j].invitations < sorted[i].invitations
                       \/ sorted[j].invitations = sorted[i].invitations /\ j <= i})
        n       == Cardinality(positions)
        at(r)   == sorted[CHOOSE i \in positions : rank(i) = r].invitations
    IN  IF n % 2 = 1 THEN 2 * at((n + 1) \div 2)
        ELSE at(n \div 2) + at((n \div 2) + 1)

\* C20: the typical invitation volume is the median of the invitation
\* counts of the last 10 rounds, zero counts excluded, and there is none
\* when no such round exists.
C20_TypicalVolumeIsMedian ==
    (call.op = "medianInvitations" /\ result # Null) =>
        IF PositiveOfLastTen(call.sorted) = {} THEN result.value = Null
        ELSE /\ result.value # Null
             /\ 2 * result.value.n
                   = TwiceMedian(call.sorted, PositiveOfLastTen(call.sorted))

\* the value is a middle count: the upper of the two middle counts when the
\* number of counts is even
UpperMedian ==
    (call.op = "medianInvitations" /\ result # Null) =>
        IF PositiveOfLastTen(call.sorted) = {} THEN result.value = Null
        ELSE LET positions == PositiveOfLastTen(call.sorted)
                 n         == Cardinality(positions)
                 below     == Cardinality({j \in positions :
                                  call.sorted[j].invitations < result.value.n})
                 atMost    == Cardinality({j \in positions :
                                  call.sorted[j].invitations <= result.value.n})
             IN  /\ result.value # Null
                 /\ below <= n \div 2
                 /\ atMost > n \div 2

(***************************************************************************)
(* getPoolAwareProjection as a function of the series, the snapshots, the  *)
(* target score and the projection mode.                                   *)
(***************************************************************************)
MaxPoolSnaps == 7

PoolSnapshotCounts == {20, 40}

\* weekly snapshots from day 0 with the given candidate counts
WeeklySnapshots(counts) == [i \in 1..Len(counts) |-> Snapshot(7 * (i - 1), counts[i])]

\* the weekly snapshot lists of 2..MaxPoolSnaps snapshots
PoolSnapshotLists ==
    {WeeklySnapshots(c) : c \in UNION {[1..n -> PoolSnapshotCounts] : n \in 2..MaxPoolSnaps}}

\* rounds with a snapshot within 30 days: three rounds with invitations, and
\* seven of which four have no invitation count (0) or a negative one
PoolSeries ==
    { <<Round(0, 480, 10), Round(14, 480, 10), Round(35, 480, 10)>>,
      <<Round(0, 480, 30), Round(14, 480, 30), Round(35, 480, 30)>>,
      <<Round(0, 480, 0), Round(0, 480, 0), Round(7, 480, -1), Round(7, 480, 0),
        Round(14, 480, 10), Round(21, 480, 10), Round(35, 480, 10)>> }

PoolTargets == {460, 475}

InitPool ==
    /\ originalDatasets = << >>
    /\ distributionSnapshots \in PoolSnapshotLists
    /\ today = 1110
    /\ projectionMode \in ProjectionModes \ {"off"}
    /\ timeRange = "all"
    /\ userScore = 0
    /\ hiddenCategories = {}
    /\ scoreResults = << >>
    /\ currentTheme = "auto"
    /\ distView = "current"
    /\ url = NoQuery
    /\ buttons = ButtonsAtLoad(hiddenCategories, projectionMode)
    /\ call \in [op : {"getPoolAwareProjection"}, sorted : PoolSeries,
                 score : PoolTargets]
    /\ result = Null

CallGetPoolAwareProjection ==
    /\ call.op = "getPoolAwareProjection"
    /\ Return(getPoolAwareProjection(Page(projectionMode, timeRange, hiddenCategories),
                                     call.sorted, call.score))

NextPool == CallGetPoolAwareProjection

SpecPool == InitPool /\ [][NextPool]_vars

\* the extrapolation policy of the score trend, over any series of points:
\* in moving-average mode no model below 6 points
TrendPolicy(points, mode) ==
    IF mode = "moving-avg"
    THEN IF Len(points) < MOVING_AVG_WINDOW THEN Null
         ELSE linearRegression(LastThree(SmoothedSeries(points)))
    ELSE IF mode = "poly" THEN polyRegression(points)
    ELSE linearRegression(points)

\* the ratio of the call's target score at each snapshot
CallRatios ==
    UserRatioSeries(distributionSnapshots, call.score,
                    MedianInvitations(RecentInvitations(call.sorted)))

\* the call reaches the fit: the ratio on the latest snapshot is above 1.0
CallReachesFit ==
    /\ call.op = "getPoolAwareProjection"
    /\ result # Null
    /\ ~PoolModelUnavailable(Page(projectionMode, timeRange, hiddenCategories),
                             call.sorted, call.score)

\* the date the search gives over the model reg of the call's ratios
DateUnder(reg) ==
    CrossingSearch(reg, distributionSnapshots[Len(distributionSnapshots)].date,
                   RInt(1), TRUE)

\* C21: the pool-aware model fits the ratio series in the mode the caller
\* selected with the policy of the score trend: a linear fit in linear mode,
\* a quadratic with linear fall-back in polynomial mode, and in
\* moving-average mode a linear fit over the last 3 points of the window-6
\* trailing mean of the ratios, never a plain linear fit over all of them.
C21_FitsInCallerMode ==
    CallReachesFit => result.value = DateUnder(TrendPolicy(CallRatios, projectionMode))

\* with 6 or more snapshots, or outside moving-average mode, the date is the
\* one of the score trend's policy
SamePolicyFromSixSnapshots ==
    (CallReachesFit /\ (projectionMode # "moving-avg"
                          \/ Len(distributionSnapshots) >= MOVING_AVG_WINDOW)) =>
        result.value = DateUnder(TrendPolicy(CallRatios, projectionMode))

\* in moving-average mode with fewer than 6 snapshots the date is the one of
\* a plain linear fit over all ratios
PlainLinearBelowSixSnapshots ==
    (CallReachesFit /\ projectionMode = "moving-avg"
                    /\ Len(distributionSnapshots) < MOVING_AVG_WINDOW) =>
        result.value = DateUnder(linearRegression(CallRatios))

\* a moving-average date from 6 or more snapshots that the plain linear fit
\* over all ratios would not give
SmoothedTailDate ==
    /\ CallReachesFit
    /\ projectionMode = "moving-avg"
    /\ Len(distributionSnapshots) >= MOVING_AVG_WINDOW
    /\ result.value # Null
    /\ result.value # DateUnder(linearRegression(CallRatios))

\* the forecast points of a moving-average dataset
ForecastOf(proj) == SelectSeq(proj.data, LAMBDA p : p.roundType = <<"moving avg forecast">>)

\* the 12 points the builder would draw from the line reg after the date lastX
DrawnFrom(reg, lastX) == MovingAvgForecast(reg, lastX, AddMonths(lastX, PROJECTION_MONTHS))

\* every window-6 mean of the sorted series is a whole number
WholeMeans(sorted) ==
    \A k \in MOVING_AVG_WINDOW..Len(sorted) :
        MeanOfWindow(sorted, k, MOVING_AVG_WINDOW)[2] = 1

\* C22: in moving-average mode the forecast the builder draws and the
\* crossing date of the trend search come from one and the same line, the
\* linear fit over the last 3 points of the window-6 trailing average: the
\* forecast points are that line's values and the fitted lines are equal.
C22_SameMovingAverageLine ==
    (call.op = "buildDatasets" /\ projectionMode = "moving-avg") =>
        \A c \in 1..Len(result) :
            LET sorted == SortByDate(FilteredIn(result[c]))
                proj   == ProjectionIn(result[c])
            IN  (proj # Null /\ Len(OverlayOf(proj)) >= 2) =>
                    /\ linearRegression(TailPoints(LastThree(OverlayOf(proj))))
                          = TrendRegression(sorted, "moving-avg")
                    /\ ForecastOf(proj)
                          = DrawnFrom(TrendRegression(sorted, "moving-avg"),
                                      sorted[Len(sorted)].x)

\* where every window mean is a whole number the two lines are one
SameLineOnWholeMeans ==
    (call.op = "buildDatasets" /\ projectionMode = "moving-avg") =>
        \A c \in 1..Len(result) :
            LET sorted == SortByDate(FilteredIn(result[c]))
                proj   == ProjectionIn(result[c])
            IN  (proj # Null /\ Len(OverlayOf(proj)) >= 2 /\ WholeMeans(sorted)) =>
                    /\ linearRegression(TailPoints(LastThree(OverlayOf(proj))))
                          = TrendRegression(sorted, "moving-avg")
                    /\ ForecastOf(proj)
                          = DrawnFrom(TrendRegression(sorted, "moving-avg"),
                                      sorted[Len(sorted)].x)

\* a forecast drawn from two or more smoothed points with whole means
ForecastOnWholeMeans ==
    /\ call.op = "buildDatasets"
    /\ projectionMode = "moving-avg"
    /\ \E c \in 1..Len(result) :
          /\ ProjectionIn(result[c]) # Null
          /\ Len(ForecastOf(ProjectionIn(result[c]))) > 0
          /\ WholeMeans(SortByDate(FilteredIn(result[c])))

\* the time of step i of the MovingAvgSteps evenly spaced steps after lastT
TimeOfForecast(lastT, endT, i) ==
    RAdd(RInt(lastT), RNorm((endT - lastT) * i, MovingAvgSteps))

\* the points are the MovingAvgSteps forecast points of the line reg between
\* lastT and endT
TwelveForecastPoints(points, reg, lastT, endT) ==
    /\ Len(points) = MovingAvgSteps
    /\ points[MovingAvgSteps].x = endT
    /\ \A i \in 1..MovingAvgSteps :
          /\ points[i].roundType = <<"moving avg forecast">>
          /\ points[i].x = MathFloor(TimeOfForecast(lastT, endT, i))
          /\ RoundedAndClamped(points[i].y, EvalAt(reg, TimeOfForecast(lastT, endT, i)))

\* the overlay is one smoothed point for each of the dates 6..n of the series
\* and the rest is the forecast from the line through its last 3 points, or
\* nothing when there are fewer than 2 smoothed points or there is no line
OverlayThenForecast(sorted, overlay, rest) ==
    /\ Len(overlay) = Len(sorted) - MOVING_AVG_WINDOW + 1
    /\ \A k \in 1..Len(overlay) :
          /\ overlay[k].x = sorted[k + MOVING_AVG_WINDOW - 1].x
          /\ overlay[k].roundType = <<"moving avg">>
    /\ IF Len(overlay) >= 2 /\ linearRegression(TailPoints(LastThree(overlay))) # Null
       THEN TwelveForecastPoints(rest, linearRegression(TailPoints(LastThree(overlay))),
                                 overlay[Len(overlay)].x,
                                 SixMonthsAfter(overlay[Len(overlay)].x))
       ELSE rest = << >>

\* C23: in moving-average mode the builder emits the n - 5 smoothed overlay
\* points and, exactly when there are 2 or more of them and the fit over the
\* last 3 is not degenerate, 12 more evenly spaced forecast points ending 6
\* months after the last smoothed date, computed from that fit; with exactly
\* 1 smoothed point it emits no forecast point.
C23_OverlayAndTwelveForecastPoints ==
    (call.op = "buildDatasets" /\ projectionMode = "moving-avg") =>
        \A c \in 1..Len(result) :
            LET sorted == SortByDate(FilteredIn(result[c]))
                proj   == ProjectionIn(result[c])
            IN  Len(sorted) >= MOVING_AVG_WINDOW =>
                    /\ proj # Null
                    /\ Len(proj.data) >= Len(sorted) - MOVING_AVG_WINDOW + 1
                    /\ OverlayThenForecast(
                          sorted,
                          SubSeq(proj.data, 1, Len(sorted) - MOVING_AVG_WINDOW + 1),
                          SubSeq(proj.data, Len(sorted) - MOVING_AVG_WINDOW + 2,
                                 Len(proj.data)))

\* a forecast of 12 points after 3 smoothed points that do not lie on a line
C23_Witness ==
    /\ call.op = "buildDatasets"
    /\ projectionMode = "moving-avg"
    /\ Len(result) >= 1
    /\ ProjectionIn(result[1]) # Null
    /\ LET overlay == OverlayOf(ProjectionIn(result[1]))
       IN  /\ Len(overlay) = 3
           /\ Len(ProjectionIn(result[1]).data) = 3 + MovingAvgSteps
           /\ overlay[2].y - overlay[1].y # overlay[3].y - overlay[2].y

\* exactly one smoothed point, and no forecast
OneSmoothedPointNoForecast ==
    /\ call.op = "buildDatasets"
    /\ projectionMode = "moving-avg"
    /\ Len(result) >= 1
    /\ ProjectionIn(result[1]) # Null
    /\ Len(ProjectionIn(result[1]).data) = 1

\* two smoothed points on one date: no line, and no forecast
DegenerateTailNoForecast ==
    /\ call.op = "buildDatasets"
    /\ projectionMode = "moving-avg"
    /\ Len(result) >= 1
    /\ ProjectionIn(result[1]) # Null
    /\ Len(ProjectionIn(result[1]).data) = 2

(***************************************************************************)
(* The distribution snapshots the generator builds from the rounds file.   *)
(* A round is [date, distribution]; its number is its place in the file,   *)
(* which the scraper writes in the order of the round numbers.  asOfDate   *)
(* is the text the source publishes, NoText when it is missing; a text is  *)
(* a number from 101 on, so that no text is the ISO date of a round.       *)
(***************************************************************************)
NoText == 0

\* a round without distribution: parseDistribution returned undefined
NoDistribution ==
    [present |-> FALSE, total |-> 0, asOfDate |-> NoText, ranges |-> [k \in RangeKeys |-> 0]]

\* a distribution with all its candidates in 501-600
RoundDistribution(total, asOfDate) ==
    [present |-> TRUE, total |-> total, asOfDate |-> asOfDate,
     ranges |-> [k \in RangeKeys |-> IF k = "501-600" THEN total ELSE 0]]

\* data.rounds.filter((r) => r.distribution && r.distribution.total > 0)
WithDistribution(rounds) ==
    SelectSeq(rounds, LAMBDA r : r.distribution.present /\ r.distribution.total > 0)

\* .sort((a, b) => new Date(a.date).getTime() - new Date(b.date).getTime())
RECURSIVE SortRoundsByDate(_)
SortRoundsByDate(rounds) ==
    IF Len(rounds) <= 1 THEN rounds
    ELSE LET rest == SortRoundsByDate(SubSeq(rounds, 1, Len(rounds) - 1))
             r    == rounds[Len(rounds)]
             k    == Cardinality({i \in 1..Len(rest) : rest[i].date <= r.date})
         IN  SubSeq(rest, 1, k) \o <<r>> \o SubSeq(rest, k + 1, Len(rest))

\* the rounds in the order of the file, without the sort by date
DistRounds_Unsorted(rounds) == WithDistribution(rounds)

\* const distRounds = data.rounds.filter(...).sort(...)
DistRounds(rounds) == SortRoundsByDate(WithDistribution(rounds))

\* const key = d.asOfDate || r.date
SnapshotKey(r) ==
    IF r.distribution.asOfDate = NoText THEN r.date ELSE r.distribution.asOfDate

\* distSnapshots.push({ date: r.date, ranges: {...}, total: d.total })
PushedSnapshot(r) ==
    [date |-> r.date, ranges |-> r.distribution.ranges, total |-> r.distribution.total]

\* for (const r of distRounds) { if (seenDates.has(key)) continue; ... }
RECURSIVE DedupeFrom(_, _, _, _)
DedupeFrom(distRounds, i, seenDates, out) ==
    IF i > Len(distRounds) THEN out
    ELSE IF SnapshotKey(distRounds[i]) \in seenDates
    THEN DedupeFrom(distRounds, i + 1, seenDates, out)
    ELSE DedupeFrom(distRounds, i + 1, seenDates \cup {SnapshotKey(distRounds[i])},
                    Append(out, PushedSnapshot(distRounds[i])))

\* Build distribution snapshots over time (deduplicated by asOfDate)
distSnapshots(rounds) == DedupeFrom(DistRounds(rounds), 1, {}, << >>)

MaxIndexRounds == 3

IndexDates == {0, 7}

AsOfTexts == {NoText, 101, 102}

IndexTotals == {5, 9}

\* the rounds files of 0..MaxIndexRounds rounds
RoundsFiles ==
    LET distributions == {NoDistribution}
                           \cup {RoundDistribution(t, a) : t \in IndexTotals, a \in AsOfTexts}
        rounds == [date : IndexDates, distribution : distributions]
    IN  UNION {[1..n -> rounds] : n \in 0..MaxIndexRounds}

InitIndex ==
    /\ PageIdle
    /\ call \in [op : {"distSnapshots"}, rounds : RoundsFiles]
    /\ result = Null

CallDistSnapshots ==
    /\ call.op = "distSnapshots"
    /\ Return(distSnapshots(call.rounds))

NextIndex == CallDistSnapshots

SpecIndex == InitIndex /\ [][NextIndex]_vars

\* the rounds of the file that carry a snapshot, and the one of them that
\* comes before the other in the file, or in time (in the file among rounds
\* of one date)
Carrying(rounds) ==
    {i \in 1..Len(rounds) : rounds[i].distribution.present
                              /\ rounds[i].distribution.total > 0}

FirstInFile(rounds, i, j) == i < j

FirstInTime(rounds, i, j) ==
    rounds[i].date < rounds[j].date \/ (rounds[i].date = rounds[j].date /\ i < j)

\* index is ascending by date and holds exactly the snapshots of the rounds
\* kept, each as its round carries it
IndexOfKept(index, rounds, kept) ==
    /\ \A k \in 1..(Len(index) - 1) : index[k].date <= index[k + 1].date
    /\ Len(index) = Cardinality(kept)
    /\ \A s \in {PushedSnapshot(rounds[i]) : i \in kept} :
          Cardinality({k \in 1..Len(index) : index[k] = s})
              = Cardinality({i \in kept : PushedSnapshot(rounds[i]) = s})
    /\ \A k \in 1..Len(index) : index[k].date <= index[Len(index)].date

\* C24 as stated: of the snapshots with one asOfDate the index keeps the
\* first in input order and drops the later ones unmerged; the index is
\* ascending by date with one snapshot per key, its last the most recent.
C24_KeepsFirstInInputOrder ==
    (call.op = "distSnapshots" /\ result # Null) =>
        IndexOfKept(result.value, call.rounds,
                    {i \in Carrying(call.rounds) :
                        \A j \in Carrying(call.rounds) :
                            (j # i /\ SnapshotKey(call.rounds[j]) = SnapshotKey(call.rounds[i]))
                                => FirstInFile(call.rounds, i, j)})

\* C24: of the snapshots with one asOfDate the index keeps the one of the
\* earliest round date (the first in input order among rounds of that date)
\* and drops the others unmerged; the index is ascending by date with one
\* snapshot per key, its last the most recent.
C24_KeepsEarliestRound ==
    (call.op = "distSnapshots" /\ result # Null) =>
        IndexOfKept(result.value, call.rounds,
                    {i \in Carrying(call.rounds) :
                        \A j \in Carrying(call.rounds) :
                            (j # i /\ SnapshotKey(call.rounds[j]) = SnapshotKey(call.rounds[i]))
                                => FirstInTime(call.rounds, i, j)})

\* two snapshots with one asOfDate and different contents, the later round
\* first in the file, and a third snapshot with another key
C24_Witness ==
    /\ call.op = "distSnapshots"
    /\ result # Null
    /\ Len(result.value) = 2
    /\ \E i, j \in Carrying(call.rounds) :
          /\ i < j
          /\ call.rounds[j].date < call.rounds[i].date
          /\ SnapshotKey(call.rounds[i]) = SnapshotKey(call.rounds[j])
          /\ call.rounds[i].distribution.total # call.rounds[j].distribution.total

\* where the file is in the order of the dates the snapshot kept is the first
\* in the file
FirstInFileWhenChronological ==
    (call.op = "distSnapshots" /\ result # Null
       /\ \A i \in 1..(Len(call.rounds) - 1) : call.rounds[i].date <= call.rounds[i + 1].date) =>
        IndexOfKept(result.value, call.rounds,
                    {i \in Carrying(call.rounds) :
                        \A j \in Carrying(call.rounds) :
                            (j # i /\ SnapshotKey(call.rounds[j]) = SnapshotKey(call.rounds[i]))
                                => FirstInFile(call.rounds, i, j)})

(***************************************************************************)
(* findClosestDist as a function of the snapshots and the date.            *)
(***************************************************************************)
MaxNearest == 3

NearestDates == {40, 60, 100}

QueryDates == {9, 10, 50, 70, 130, 131}

\* the lists of 0..MaxNearest snapshots in ascending order of date, two
\* snapshots of one date allowed
NearestLists ==
    LET snapshots == {Snapshot(d, c) : d \in NearestDates, c \in PoolCounts}
    IN  {s \in UNION {[1..n -> snapshots] : n \in 0..MaxNearest} :
            \A i \in 1..(Len(s) - 1) : s[i].date <= s[i + 1].date}

InitNearest ==
    /\ PageIdle
    /\ call \in [op : {"findClosestDist"}, snaps : NearestLists, dateMs : QueryDates]
    /\ result = Null

CallFindClosestDist ==
    /\ call.op = "findClosestDist"
    /\ Return(findClosestDist(call.snaps, call.dateMs))

NextNearest == CallFindClosestDist

SpecNearest == InitNearest /\ [][NextNearest]_vars

\* the distance in days of snapshot i of the call from the date asked for
DistanceOf(i) == Abs(call.snaps[i].date - call.dateMs)

\* the snapshots of the call at the least distance from the date
Nearest == {i \in 1..Len(call.snaps) : \A j \in 1..Len(call.snaps) : DistanceOf(i) <= DistanceOf(j)}

\* C25: findClosestDist returns the snapshot at the least absolute distance
\* from the date, the earliest in the index if several are as near; it
\* returns none when the index is empty or when the least distance is more
\* than 30 days; a snapshot exactly 30 days away is still returned.
C25_NearestWithinThirtyDays ==
    (call.op = "findClosestDist" /\ result # Null) =>
        IF Len(call.snaps) = 0 THEN result.value = Null
        ELSE IF \A i \in 1..Len(call.snaps) : DistanceOf(i) > 30 THEN result.value = Null
        ELSE /\ result.value # Null
             /\ result.value = call.snaps[CHOOSE i \in Nearest : \A j \in Nearest : i <= j]

\* two different snapshots exactly 30 days away on either side of the date:
\* the earlier in the index is returned
C25_Witness ==
    /\ call.op = "findClosestDist"
    /\ result # Null
    /\ Len(call.snaps) = 2
    /\ DistanceOf(1) = 30
    /\ DistanceOf(2) = 30
    /\ call.snaps[1] # call.snaps[2]
    /\ result.value = call.snaps[1]

\* the nearest snapshot is 31 days away and nothing is returned
NearestTooOld ==
    /\ call.op = "findClosestDist"
    /\ result # Null
    /\ \E i \in Nearest : DistanceOf(i) = 31
    /\ result.value = Null

(***************************************************************************)
(* The loops of the two crossing searches and of regressionProjection,     *)
(* one step per iteration.  call.t is the loop variable (the time t of a   *)
(* search, the index i of the projection) and call.evals the number of     *)
(* evaluations of the model so far.                                        *)
(***************************************************************************)
LoopSeries ==
    { Weekly(<<480, 480, 470, 470>>),
      Weekly(<<480, 470, 480, 470, 480>>),
      Weekly(<<480, 480, 480, 480, 480, 470, 470>>),
      Weekly(<<470, 470, 470, 470, 470, 480, 480, 480>>) }

LoopTargets == {300, 460}

LoopSnapshotLists ==
    { WeeklySnapshots(<<40, 30, 20>>),
      WeeklySnapshots(<<20, 30, 40>>),
      WeeklySnapshots(<<40, 40, 40, 40, 40, 30, 30>>) }

\* the loop entry: the model reg is fitted, t = lastT (i = 0), nothing
\* evaluated
LoopEntry(op, sorted, score, reg, start) ==
    [op |-> op, sorted |-> sorted, score |-> score, reg |-> reg, t |-> start, evals |-> 0]

InitLoops ==
    /\ originalDatasets = << >>
    /\ today = 1110
    /\ projectionMode \in ProjectionModes \ {"off"}
    /\ timeRange = "all"
    /\ userScore = 0
    /\ hiddenCategories = {}
    /\ scoreResults = << >>
    /\ currentTheme = "auto"
    /\ distView = "current"
    /\ url = NoQuery
    /\ buttons = ButtonsAtLoad(hiddenCategories, projectionMode)
    /\ result = Null
    /\ \/ /\ distributionSnapshots = << >>
          /\ \E s \in LoopSeries, score \in LoopTargets :
                call = LoopEntry("getProjectedCrossing", s, score,
                                 TrendRegression(s, projectionMode), s[Len(s)].x)
       \/ /\ distributionSnapshots \in LoopSnapshotLists
          /\ \E s \in PoolSeries, score \in PoolTargets :
                /\ ~PoolModelUnavailable(Page(projectionMode, timeRange, hiddenCategories),
                                         s, score)
                /\ call = LoopEntry("getPoolAwareProjection", s, score,
                                    PoolRegression(
                                        UserRatioSeries(distributionSnapshots, score,
                                                        MedianInvitations(RecentInvitations(s))),
                                        projectionMode),
                                    distributionSnapshots[Len(distributionSnapshots)].date)
       \/ /\ distributionSnapshots = << >>
          /\ projectionMode \in {"linear", "poly"}
          /\ \E s \in LoopSeries :
                call = LoopEntry("regressionProjection", s, 0,
                                 TrendRegression(s, projectionMode), 0)
    /\ call.reg # Null

\* one iteration of "for (let t = lastT; t <= maxT; t += step)": the exit at
\* t > maxT, the return at a value <= level, or t += step
SearchIteration(lastT, level, star) ==
    IF 4 * (call.t - lastT) > HorizonQuarterDays
    THEN result' = Returned(Null) /\ call' = call
    ELSE IF RLeq(Eval(call.reg, call.t), level)
    THEN /\ result' = Returned(DateText(call.t, star))
         /\ call' = [call EXCEPT !.evals = @ + 1]
    ELSE /\ result' = result
         /\ call' = [call EXCEPT !.t = @ + SEARCH_STEP_DAYS, !.evals = @ + 1]

TrendSearchStep ==
    /\ call.op = "getProjectedCrossing"
    /\ result = Null
    /\ SearchIteration(call.sorted[Len(call.sorted)].x, RInt(call.score), FALSE)
    /\ UNCHANGED <<originalDatasets, distributionSnapshots, today, projectionMode,
                   timeRange, userScore, hiddenCategories, scoreResults, currentTheme,
                   distView, url, buttons>>

PoolSearchStep ==
    /\ call.op = "getPoolAwareProjection"
    /\ result = Null
    /\ SearchIteration(distributionSnapshots[Len(distributionSnapshots)].date, RInt(1), TRUE)
    /\ UNCHANGED <<originalDatasets, distributionSnapshots, today, projectionMode,
                   timeRange, userScore, hiddenCategories, scoreResults, currentTheme,
                   distView, url, buttons>>

\* one iteration of "for (let i = 0; i <= totalSteps; i++)": a point is
\* pushed, or the loop is left and the points are returned
ProjectionStep ==
    /\ call.op = "regressionProjection"
    /\ result = Null
    /\ IF call.t <= totalSteps
       THEN /\ call' = [call EXCEPT !.t = @ + 1, !.evals = @ + 1]
            /\ result' = result
       ELSE /\ call' = call
            /\ result' = Returned([kind |-> "points", n |-> call.evals])
    /\ UNCHANGED <<originalDatasets, distributionSnapshots, today, projectionMode,
                   timeRange, userScore, hiddenCategories, scoreResults, currentTheme,
                   distView, url, buttons>>

NextLoops == TrendSearchStep \/ PoolSearchStep \/ ProjectionStep

SpecLoops == InitLoops /\ [][NextLoops]_vars

\* a loop that can take an iteration eventually takes it: weak fairness of
\* NextLoops, WF_vars(NextLoops), with ENABLED <<NextLoops>>_vars written out
\* as result = Null (an iteration can be taken exactly while nothing is
\* returned)
SpecLoopsFair == SpecLoops /\ ([]<>(result # Null) \/ []<><<NextLoops>>_vars)

\* the time a search of the call started from
SearchStart ==
    IF call.op = "getPoolAwareProjection"
    THEN distributionSnapshots[Len(distributionSnapshots)].date
    ELSE call.sorted[Len(call.sorted)].x

\* a search is at a whole number of 7-day steps from its start, has made one
\* evaluation per step taken (one more when it returns a date), and never
\* more than one per week of 3 years of 365.25 days, the start included; the
\* projection pushes at most 41 points, and exactly 41 when it returns
LoopsWithinBounds ==
    IF call.op = "regressionProjection"
    THEN /\ call.evals = call.t
         /\ call.evals <= 40 + 1
         /\ result # Null => result.value.n = 40 + 1
    ELSE /\ (call.t - SearchStart) % 7 = 0
         /\ (call.t - SearchStart) \div 7 <= call.evals
         /\ call.evals <= (call.t - SearchStart) \div 7 + 1
         /\ call.evals <= (3 * 1461) \div (4 * 7) + 1
         /\ (result # Null /\ result.value # Null) =>
               4 * (call.t - SearchStart) <= 3 * 1461

\* C26: both crossing searches always terminate, and in every mode they
\* advance by the same 7-day step up to the same 3-year horizon, about 156
\* weekly evaluations at most (157 with the start); the projection builder
\* takes a fixed 40 steps (41 points); no loop runs longer than these
\* constants allow.
C26_LoopsTerminateWithinFixedBounds ==
    [](LoopsWithinBounds) /\ <>(result # Null)

\* a search that evaluated its model at every one of the 157 weekly steps
\* and returned nothing
C26_Witness ==
    /\ call.op \in {"getProjectedCrossing", "getPoolAwareProjection"}
    /\ result # Null
    /\ result.value = Null
    /\ call.evals = 157

\* the result of a search loop is the one of CrossingSearch
LoopAgreesWithSearch ==
    (result # Null /\ call.op = "getProjectedCrossing") =>
        result.value = getProjectedCrossing(Page(projectionMode, timeRange, hiddenCategories),
                                            call.sorted, call.score)

\* the sum of all band counts of a snapshot
AllCandidates(dist) == SumOfBands(dist, 1..Len(ScoreRanges))

\* C27: for a snapshot with non-negative band counts, countAboveScore does
\* not increase with the threshold, lies between 0 and the sum of all band
\* counts, is that sum for a threshold <= 0 and is 0 for a threshold above
\* 1200.
C27_CountFallsWithThreshold ==
    (call.op = "countAboveScore" /\ result # Null) =>
        /\ 0 <= result.value
        /\ result.value <= AllCandidates(call.dist)
        /\ call.cutoffScore <= 0 => result.value = AllCandidates(call.dist)
        /\ call.cutoffScore > 1200 => result.value = 0
        /\ \A T \in Thresholds \cup {call.cutoffScore + 1} :
              T >= call.cutoffScore => countAboveScore(call.dist, T) <= result.value

\* a threshold inside a band: some but not all candidates are counted, and
\* fewer at the next threshold
C27_Witness ==
    /\ call.op = "countAboveScore"
    /\ result # Null
    /\ call.cutoffScore = 465
    /\ 0 < result.value
    /\ result.value < AllCandidates(call.dist)
    /\ countAboveScore(call.dist, 466) < result.value

\* the per-round ratios of the call, and whether its per-snapshot ratios are
\* computed (line 1292 is reached)
CallRatioSeries == RatioSeries(call.sorted, distributionSnapshots, Len(call.sorted))

SnapshotRatiosComputed ==
    /\ Len(CallRatioSeries) >= 3
    /\ getLatestDistribution(distributionSnapshots) # Null
    /\ Len(RecentInvitations(call.sorted)) > 0
    /\ ~RLeq(UserRatio(distributionSnapshots, call.sorted, call.score), RInt(1))

\* C28: no competition ratio is computed with a zero divisor: every
\* per-round ratio divides by an invitation count above 0 and every
\* per-snapshot ratio by a median invitation volume above 0, whatever the
\* series and the snapshots, rounds with 0 or no invitations included; every
\* ratio is a finite number.
C28_NoZeroDivisor ==
    (call.op = "getPoolAwareProjection" /\ result # Null) =>
        /\ \A k \in 1..Len(CallRatioSeries) :
              /\ CallRatioSeries[k].invitations > 0
              /\ CallRatioSeries[k].ratio[2] > 0
        /\ Len(RecentInvitations(call.sorted)) > 0 =>
              MedianInvitations(RecentInvitations(call.sorted)) > 0
        /\ SnapshotRatiosComputed =>
              \A k \in 1..Len(CallRatios) : CallRatios[k].y[2] > 0

\* a series with rounds of 0 and of negative invitation counts whose ratios
\* are computed, per round and per snapshot
C28_Witness ==
    /\ call.op = "getPoolAwareProjection"
    /\ result # Null
    /\ \E i \in 1..Len(call.sorted) : call.sorted[i].invitations = 0
    /\ \E i \in 1..Len(call.sorted) : call.sorted[i].invitations < 0
    /\ Len(CallRatioSeries) = 3
    /\ SnapshotRatiosComputed

(***************************************************************************)
(* The toggle buttons and the settings on a page that can also be opened   *)
(* on a URL its own writeURL did not write.                                *)
(***************************************************************************)
\* a score above the range, a projection mode no button has, and a query
\* writeURL could have written
ForeignQueries ==
    { [NoQuery EXCEPT !.score = Digits(5000)],
      [NoQuery EXCEPT !.proj = "cubic"],
      [NoQuery EXCEPT !.score = Digits(480), !.proj = "poly", !.hide = <<Digits(1)>>] }

NextOpen ==
    \/ NextSettings
    \/ \E query \in ForeignQueries : OpenURL(query)

SpecOpen == InitSettings /\ [][NextOpen]_vars

\* the labels of all categories
AllLabels == {originalDatasets[i].label : i \in 1..Len(originalDatasets)}

\* the All button is active exactly when nothing is hidden, and the button
\* of each category exactly when the category is not hidden
ButtonsShowHidden ==
    /\ buttons.allBtn <=> hiddenCategories = {}
    /\ \A i \in 1..Len(originalDatasets) :
          buttons.categoryButtons[i] <=> originalDatasets[i].label \notin hiddenCategories

C30_ScoreAndModeWithinRange ==
    /\ userScore \in 0..1200
    /\ projectionMode \in {"off", "linear", "moving-avg", "poly"}
    /\ buttons.proj = {projectionMode}

\* the same, for the states whose query string is one writeURL writes from
\* a score in 0..1200 and a mode of a button
WithinRangeOnWrittenURLs ==
    (readURL(url).proj \in ProjectionModes
        /\ (url.score = << >> \/ ParseInt(url.score) \in 0..1200)) =>
            /\ userScore \in 0..1200
            /\ projectionMode \in ProjectionModes
            /\ buttons.proj = {projectionMode}

\* a score outside 0..1200 entered in the score field: userScore is 0
ScoreEntryReset == [][\A val \in ScoreEntries :
                         (ScoreInput(val) /\ (val < 0 \/ val > 1200)) => userScore' = 0]_vars

=============================================================================
